---------------------------- MODULE Spec2Model ----------------------------
(***************************************************************************)
(* A model of html_parser.py: the scan of a document's top-level nodes     *)
(* into per-marker records (extract_html_sections), and the three          *)
(* post-passes run by the main block: post_process_table_of_sections,      *)
(* post_process_guides and consolidate_to_sections.                        *)
(*                                                                         *)
(* A document is a sequence of top-level tags.  A tag is given by its      *)
(* name, its text, whether it holds an <a id="_Toc..."> anchor, and the    *)
(* outcome of the source's regular expressions on its text.  The markup    *)
(* of a record ("html") is the sequence of its tags' markup: the source    *)
(* joins str(tag) with "\n", which is concatenation of sequences here.     *)
(***************************************************************************)
EXTENDS Naturals, Sequences, FiniteSets, TLC

\* The longest document read.
MaxNodes == 3

\* Python's None.
None == "None"

(***************************************************************************)
(* Hyphens.  A string here holds ASCII only: "^", "~", "=" and "+" stand   *)
(* for U+2010 (hyphen), U+2011 (non-breaking hyphen), U+2012 (figure dash) *)
(* and U+2013 (en dash), "_" for U+2014 (em dash) and "|" for U+2015       *)
(* (horizontal bar).                                                       *)
(***************************************************************************)
Hyphen == "^"

NonBreakingHyphen == "~"

FigureDash == "="

EnDash == "+"

EmDash == "_"

HorizontalBar == "|"

standard_hyphen == "-"

\* The character class [\u2010\u2011\u2012\u2013\-] of normalize_hyphens.
HyphenClass == {Hyphen, NonBreakingHyphen, FigureDash, EnDash, standard_hyphen}

\* NormalizeFrom when the class is matched two characters at a time: each
\* pair of characters of the class becomes one "-".
RECURSIVE NormalizePairsFrom(_, _)
NormalizePairsFrom(text, j) ==
    IF j > Len(text) THEN ""
    ELSE IF /\ j < Len(text)
            /\ SubSeq(text, j, j) \in HyphenClass
            /\ SubSeq(text, j + 1, j + 1) \in HyphenClass
         THEN standard_hyphen \o NormalizePairsFrom(text, j + 2)
         ELSE SubSeq(text, j, j) \o NormalizePairsFrom(text, j + 1)

\* The text from place j on, each run of characters of the class as one "-".
RECURSIVE NormalizeFrom(_, _)
NormalizeFrom(text, j) ==
    IF j > Len(text) THEN ""
    ELSE IF SubSeq(text, j, j) \notin HyphenClass
         THEN SubSeq(text, j, j) \o NormalizeFrom(text, j + 1)
         ELSE IF j > 1 /\ SubSeq(text, j - 1, j - 1) \in HyphenClass
         THEN NormalizeFrom(text, j + 1)
         ELSE standard_hyphen \o NormalizeFrom(text, j + 1)

\* normalize_hyphens left out: the text as it was read.
normalize_hyphens_skipped(text) == text

\* re.sub(r'[\u2010\u2011\u2012\u2013\-]+', '-', text)
normalize_hyphens(text) ==
    IF text = "" THEN text ELSE NormalizeFrom(text, 1)

(***************************************************************************)
(* The top-level tags a document is drawn from.  body \o page is the       *)
(* tag's raw text (page: a trailing page number, with its leading space).  *)
(* level is the first pattern of extract_html_sections that matches the    *)
(* text with its hyphens normalized (None: no pattern matches); id and     *)
(* heading are the parts of the raw text under that pattern's identifier   *)
(* and heading groups, gtype the part under the Guide pattern's group 1:   *)
(* the groups are read off the normalized text.  ref is group 1 of         *)
(* section_ref_pattern on the raw text ("": no match).                      *)
(***************************************************************************)
Tag(name, body, page, anchor, level, id, gtype, heading, ref) ==
    [name |-> name, body |-> body, page |-> page, anchor |-> anchor,
     matched_level |-> level, identifier |-> normalize_hyphens(id),
     guide_type |-> gtype, heading_text |-> normalize_hyphens(heading),
     ref |-> ref]

ContentNodes ==
    { Tag("p", "Some body text", "", FALSE, None, "", "", "", ""),
      Tag("p", "Chapter 2 Liability rules", "", FALSE,
          "Chapter", "2", "", "Liability rules", ""),
      Tag("p", "Part 1-1 General", "", TRUE, "Part", "1-1", "", "General", ""),
      Tag("p", "Division 1 Preliminary", "", TRUE,
          "Division", "1", "", "Preliminary", ""),
      Tag("p", "Subdivision 40~B Core rules", "", TRUE,
          "Subdivision", "40~B", "", "Core rules", ""),
      Tag("p", "Guide to Division 40 Cost base", " 7", TRUE,
          "Guide", "40", "Division", "Cost base", ""),
      Tag("p", "40-25 Meaning of assessable income", "", TRUE,
          "Section", "40-25", "", "Meaning of assessable income", "40-25"),
      Tag("p", "40-25 Meaning of income", " 12", FALSE,
          "Section", "40-25", "", "Meaning of income", "40-25"),
      Tag("p", "40-50 Other rule", "", TRUE,
          "Section", "40-50", "", "Other rule", "40-50"),
      Tag("p", "Table of sections", "", FALSE, None, "", "", "", ""),
      Tag("p", "Table of sections", "", TRUE, None, "", "", "", ""),
      Tag("h4", "Table of sections", "", FALSE, None, "", "", "", ""),
      Tag("p", "40 Deductions", " 3", TRUE, None, "", "", "", "40") }

\* tag.get_text(" ", strip=True)
get_text(tag) == tag.body \o tag.page

\* text.lower() == 'table of sections'
IsTableOfSections(text) ==
    text \in {"Table of sections", "table of sections", "TABLE OF SECTIONS"}

\* tag.find('a', id=re.compile(r'^_Toc'))
is_definitive_heading(tag) == tag.anchor

\* matched_level when a match counts only in a definitive heading.
matched_level_anchored(tag) ==
    IF tag.anchor THEN tag.matched_level ELSE None

\* The first pattern of `patterns' that matches the tag's text.
matched_level(tag) == tag.matched_level

\* any(p.match(text) for p_name, p in patterns.items() if p_name != 'Section')
MatchesNonSection(tag) == matched_level(tag) \notin {None, "Section"}

\* The key of the record a matched tag opens.
new_key(tag) ==
    IF matched_level(tag) = "Guide"
    THEN "Guide to " \o tag.guide_type \o "-" \o tag.identifier
    ELSE matched_level(tag) \o "-" \o tag.identifier

\* current_key.startswith("Guide to ")
StartsWithGuideTo(key) == Len(key) >= 9 /\ SubSeq(key, 1, 9) = "Guide to "

(***************************************************************************)
(* identifier.split("-"): the pieces of s between its hyphens.             *)
(***************************************************************************)
RECURSIVE SplitFrom(_, _, _)
SplitFrom(s, start, i) ==
    IF i > Len(s) THEN <<SubSeq(s, start, Len(s))>>
    ELSE IF SubSeq(s, i, i) = "-"
         THEN <<SubSeq(s, start, i - 1)>> \o SplitFrom(s, i + 1, i + 1)
         ELSE SplitFrom(s, start, i + 1)

Split(s) == SplitFrom(s, 1, 1)

(***************************************************************************)
(* Markup.  str(tag) of the tag read at position pos of the document; the  *)
(* position tells apart two tags of the same text.                         *)
(***************************************************************************)
Markup(pos, tag) == [kind |-> "tag", pos |-> pos, tag |-> tag]

\* The text a piece of markup contributes to soup.get_text(' ', strip=True).
RECURSIVE JoinStrings(_)
JoinStrings(texts) ==
    IF texts = <<>> THEN ""
    ELSE IF Len(texts) = 1 THEN texts[1]
    ELSE texts[1] \o " " \o JoinStrings(Tail(texts))

NonEmpty(text) == text # ""

\* The non-empty stripped strings, joined by single spaces.
JoinText(texts) == JoinStrings(SelectSeq(texts, NonEmpty))

ItemText(li) == li.section_num \o " " \o li.title

MarkupText(m) ==
    IF m.kind = "tag" THEN get_text(m.tag)
    ELSE JoinText([j \in 1..Len(m.items) |-> ItemText(m.items[j])])

clean_html_for_embedding(html) ==
    JoinText([j \in 1..Len(html) |-> MarkupText(html[j])])

(***************************************************************************)
(* Dictionaries are functions from the keys present to their values.       *)
(***************************************************************************)
Has(dict, key) == key \in DOMAIN dict

\* dict.get(key, default)
Get(dict, key, default) == IF Has(dict, key) THEN dict[key] ELSE default

\* dict[key] = value
Put(dict, key, value) == (key :> value) @@ dict

\* del dict[key]
Del(dict, key) == [k \in DOMAIN dict \ {key} |-> dict[k]]

EmptyDict == [k \in {} |-> None]

\* WithHtml that sets "html" alone: the text and the count stay as they were.
WithHtmlOnly(section, html) == Put(section, "html", html)

\* section["html"], ["char_count"], ["text_for_embedding"] set from html.
WithHtml(section, html) ==
    Put(Put(Put(section, "html", html),
            "char_count", Len(clean_html_for_embedding(html))),
        "text_for_embedding", clean_html_for_embedding(html))

\* "Finalize the previous section (if any)" and "Finalize the last section".
Finalize(dict, key, tags) ==
    IF key # None /\ tags # <<>> /\ Has(dict, key)
    THEN [dict EXCEPT ![key] = WithHtml(@, tags)]
    ELSE dict

(***************************************************************************)
(* The patterns of extract_html_sections, matched character by character.  *)
(* A pattern is followed from the start of the text; each part of it takes *)
(* the set of places a match can have reached and gives the set of places  *)
(* it can reach next, so that every way the pattern can match is followed. *)
(* re.IGNORECASE: letters are compared in lower case.                      *)
(***************************************************************************)
UpperCase == "ABCDEFGHIJKLMNOPQRSTUVWXYZ"

LowerCase == "abcdefghijklmnopqrstuvwxyz"

DigitCharacters == {"0", "1", "2", "3", "4", "5", "6", "7", "8", "9"}

\* Stands for the no-break space U+00A0.
NoBreakSpace == "#"

\* [\s\u00A0]
WhiteSpace == {" ", NoBreakSpace}

\* The character of s at place j, "" past its end.
CharAt(s, j) == IF j \in 1..Len(s) THEN SubSeq(s, j, j) ELSE ""

lower(c) ==
    IF \E n \in 1..Len(UpperCase) : SubSeq(UpperCase, n, n) = c
    THEN LET n == CHOOSE n \in 1..Len(UpperCase) : SubSeq(UpperCase, n, n) = c
         IN  SubSeq(LowerCase, n, n)
    ELSE c

\* [A-Z] under re.IGNORECASE
IsLetter(c) == \E n \in 1..Len(LowerCase) : SubSeq(LowerCase, n, n) = lower(c)

\* A literal of the pattern, from each place of from.
Literal(s, from, literal) ==
    {j + Len(literal) : j \in {k \in from :
        \A n \in 1..Len(literal) :
            lower(CharAt(s, k + n - 1)) = lower(CharAt(literal, n))}}

\* The characters of s from place j up to place k - 1 are all in class.
Run(s, j, k, class) ==
    j < k /\ \A n \in j..(k - 1) : CharAt(s, n) \in class

\* [\s\u00A0]+
Spaces(s, from) ==
    {k \in 2..(Len(s) + 1) : \E j \in from : Run(s, j, k, WhiteSpace)}

\* \s*
OptionalSpaces(s, from) == from \cup Spaces(s, from)

\* \d{1,3}
Number(s, from) ==
    {k \in 2..(Len(s) + 1) :
        \E j \in from : k - j <= 3 /\ Run(s, j, k, DigitCharacters)}

\* [A-Z]
Letter(s, from) == {j + 1 : j \in {k \in from : IsLetter(CharAt(s, k))}}

\* \d{1,3}[A-Z]?
NumberLetter(s, from) == Number(s, from) \cup Letter(s, Number(s, from))

\* ^\s*<keyword>[\s\u00A0]+
Keyword(s, keyword) == Spaces(s, Literal(s, OptionalSpaces(s, {1}), keyword))

\* The places the part of the pattern of level that comes before the
\* heading can reach.  What follows it, "(?:[^\w\s]|\s)*(.*?)(?:\s+\d+)?$",
\* and for Guide "(.*?)(?:\s+\d+)?$", matches any rest of a text of one line.
MatchEnds(level, s) ==
    CASE level = "Chapter" -> NumberLetter(s, Keyword(s, "Chapter"))
      [] level = "Part" ->
             NumberLetter(s, Literal(s, NumberLetter(s, Keyword(s, "Part")),
                                     "-"))
      [] level = "Division" -> NumberLetter(s, Keyword(s, "Division"))
      [] level = "Subdivision" ->
             Letter(s, Literal(s, NumberLetter(s, Keyword(s, "Subdivision")),
                               "-"))
      [] level = "Guide" ->
             LET guide_to == Literal(s, OptionalSpaces(s, {1}), "Guide to ")
                 guide_type ==
                     UNION {Literal(s, guide_to, keyword) :
                              keyword \in {"Division", "Subdivision", "Part",
                                           "Chapter"}}
                 first == NumberLetter(s, Spaces(s, guide_type))
                 hyphen == Literal(s, first, "-")
                 identifier ==
                     first \cup NumberLetter(s, hyphen) \cup Letter(s, hyphen)
             IN  Spaces(s, identifier)
      [] level = "Section" ->
             LET start == OptionalSpaces(s, {1})
                 opened == start \cup Literal(s, start, "<strong>")
                 identifier ==
                     NumberLetter(s, Literal(s, NumberLetter(s, opened), "-"))
             IN  identifier \cup Literal(s, identifier, "</strong>")

\* pattern.match(text)
pattern_match(level, s) == MatchEnds(level, s) # {}

\* The keys of `patterns', in the order of the dict.
patterns ==
    <<"Chapter", "Part", "Division", "Subdivision", "Guide", "Section">>

\* FirstMatch when the loop ends before the Section pattern.
RECURSIVE FirstKeywordMatch(_, _)
FirstKeywordMatch(s, n) ==
    IF n > Len(patterns) - 1 THEN None
    ELSE IF pattern_match(patterns[n], s) THEN patterns[n]
    ELSE FirstKeywordMatch(s, n + 1)

\* "for level, pattern in patterns.items()" from the n-th pattern on:
\* matched_level is the level of the first pattern that matches, at which
\* the loop breaks, and None when the loop ends without a match.
RECURSIVE FirstMatch(_, _)
FirstMatch(s, n) ==
    IF n > Len(patterns) THEN None
    ELSE IF pattern_match(patterns[n], s) THEN patterns[n]
    ELSE FirstMatch(s, n + 1)

\* "matched_level = None ... if text: for level, pattern in ..."
classify(s) == IF s = "" THEN None ELSE FirstMatch(s, 1)

(***************************************************************************)
(* The state.  content_tags is the part of the document read so far; the   *)
(* other variables carry the source's names.  stage is the place in the    *)
(* main block; i is the index of the running loop over ordered_keys.       *)
(* scanned and normalized keep sections_dict as the scan and as            *)
(* post_process_table_of_sections left it; opened_at[j] is the place in    *)
(* the document of the tag that appended ordered_keys[j].  input is what   *)
(* the run finds at sys.argv[1]; exit_status is the status the process     *)
(* ends with, 0 unless the run sets it.                                    *)
(***************************************************************************)
VARIABLES content_tags, sections_dict, ordered_keys, current_key,
          current_html_snippet_tags, found_first_section,
          in_table_of_sections, stage, i, keys_to_remove,
          parent_html_stack, final_sections, output, scanned, normalized,
          opened_at, input, exit_status, raw_text, text, classified,
          suspended, first_parse,
          config_data, store, all_success, act_index, file_index, step,
          steps_run, total_batches, batch_index, failed_batches,
          successful_files, failed_files, reported,
          emf_base64_data, retry_count, base64_data_uri, temp_emf_paths,
          temp_out_dirs, attempts

vars == <<content_tags, sections_dict, ordered_keys, current_key,
          current_html_snippet_tags, found_first_section,
          in_table_of_sections, stage, i, keys_to_remove,
          parent_html_stack, final_sections, output, scanned, normalized,
          opened_at, input, exit_status, raw_text, text, classified,
          suspended, first_parse,
          config_data, store, all_success, act_index, file_index, step,
          steps_run, total_batches, batch_index, failed_batches,
          successful_files, failed_files, reported,
          emf_base64_data, retry_count, base64_data_uri, temp_emf_paths,
          temp_out_dirs, attempts>>

\* A parse that waits while another one runs, and the first parse of the
\* run as it ended; each is a sequence of one record at most.
parseVars == <<suspended, first_parse>>

\* The text of the tag the loop is at, as read and with hyphens normalized,
\* and the level of the pattern it matched (matched_level of the loop).
textVars == <<raw_text, text, classified>>

\* What the run is given, and the status it ends with.
runVars == <<input, exit_status>>

scanVars == <<sections_dict, ordered_keys, current_key,
              current_html_snippet_tags, found_first_section,
              in_table_of_sections, opened_at>>

\* process_act.py: the files of the configuration, the rows of the table
\* 'sections', the place of main and of process_single_file in their loops,
\* the steps that were started, the batches of the upload script and the
\* counts of the summary (reported: the result of each file, in order).
actVars == <<config_data, store, all_success, act_index, file_index, step,
             steps_run, total_batches, batch_index, failed_batches,
             successful_files, failed_files, reported>>

\* convert_emf_images.py: the locals of convert_emf_data_to_png_file, the
\* temporary files and directories that exist (each named by the attempt
\* that made it), and what each attempt did.
emfVars == <<emf_base64_data, retry_count, base64_data_uri, temp_emf_paths,
             temp_out_dirs, attempts>>

toolVars == <<actVars, emfVars>>

\* The variables of html_parser.py but for stage and exit_status.
parserVars == <<content_tags, scanVars, i, keys_to_remove, parent_html_stack,
                final_sections, output, scanned, normalized, input,
                textVars, parseVars>>

\* html_parser.py is not running.
ParserIdle ==
    /\ input = "html_content"
    /\ raw_text = ""
    /\ text = ""
    /\ classified = None
    /\ content_tags = <<>>
    /\ sections_dict = EmptyDict
    /\ ordered_keys = <<>>
    /\ current_key = None
    /\ current_html_snippet_tags = <<>>
    /\ found_first_section = FALSE
    /\ in_table_of_sections = FALSE
    /\ i = 0
    /\ keys_to_remove = <<>>
    /\ parent_html_stack = <<>>
    /\ final_sections = EmptyDict
    /\ output = None
    /\ scanned = EmptyDict
    /\ normalized = EmptyDict
    /\ opened_at = <<>>
    /\ suspended = <<>>
    /\ first_parse = <<>>

\* Before main of process_act.py and convert_emf_data_to_png_file are
\* called: no configuration is read, no row is stored, nothing is counted.
ActIdle ==
    /\ config_data = <<>>
    /\ store = {}
    /\ all_success = TRUE
    /\ act_index = 0
    /\ file_index = 0
    /\ step = 0
    /\ steps_run = <<>>
    /\ total_batches = 0
    /\ batch_index = 0
    /\ failed_batches = {}
    /\ successful_files = 0
    /\ failed_files = 0
    /\ reported = <<>>

EmfIdle ==
    /\ emf_base64_data = ""
    /\ retry_count = 0
    /\ base64_data_uri = None
    /\ temp_emf_paths = {}
    /\ temp_out_dirs = {}
    /\ attempts = <<>>

ToolsIdle == ActIdle /\ EmfIdle

\* What the main block can find at input_json_path: no file, a file that is
\* not JSON, JSON without the "html_content" key, JSON whose html_content
\* is empty, and JSON whose html_content holds a document.
FatalInputs == {"file not found", "not JSON", "no html_content"}

Inputs == FatalInputs \cup {"empty html_content", "html_content"}

Init ==
    /\ ToolsIdle
    /\ input \in Inputs
    /\ exit_status = 0
    /\ raw_text = ""
    /\ text = ""
    /\ classified = None
    /\ content_tags = <<>>
    /\ sections_dict = EmptyDict
    /\ ordered_keys = <<>>
    /\ current_key = None
    /\ current_html_snippet_tags = <<>>
    /\ found_first_section = FALSE
    /\ in_table_of_sections = FALSE
    /\ stage = "load"
    /\ i = 0
    /\ keys_to_remove = <<>>
    /\ parent_html_stack = <<>>
    /\ final_sections = EmptyDict
    /\ output = None
    /\ scanned = EmptyDict
    /\ normalized = EmptyDict
    /\ opened_at = <<>>
    /\ suspended = <<>>
    /\ first_parse = <<>>

(***************************************************************************)
(* The main block loads html_content from the input file: a missing file,  *)
(* a JSONDecodeError and a missing "html_content" key each end the run     *)
(* with sys.exit(1); otherwise extract_html_sections is called.            *)
(***************************************************************************)
\* LoadInput when a fatal input is only logged, and the run goes on.
IsFatalNever(file) == FALSE

IsFatal(file) == file \in FatalInputs

LoadInput ==
    /\ stage = "load"
    /\ IF IsFatal(input)
       THEN stage' = "exit" /\ exit_status' = 1
       ELSE stage' = "scan" /\ exit_status' = exit_status
    /\ UNCHANGED <<toolVars, parseVars, input, textVars, content_tags,
                   scanVars, i,
                   keys_to_remove, parent_html_stack, final_sections, output,
                   scanned, normalized>>

(***************************************************************************)
(* extract_html_sections: the body of the loop over content_tags.          *)
(***************************************************************************)

\* The record a matched tag starts.
section_info(tag) ==
    LET base == [structure_type |-> matched_level(tag),
                 heading_text |-> tag.heading_text]
        guide == IF matched_level(tag) = "Guide"
                 THEN Put(base, "guide_target_type", tag.guide_type)
                 ELSE base
        id_parts == Split(tag.identifier)
        full == IF tag.identifier # ""
                THEN Put(guide, "full_id", tag.identifier)
                ELSE guide
        primary == IF tag.identifier # "" /\ Len(id_parts) > 0
                   THEN Put(full, "primary_id", id_parts[1])
                   ELSE full
    IN  IF tag.identifier # "" /\ Len(id_parts) > 1
        THEN Put(primary, "secondary_id", id_parts[2])
        ELSE primary

\* ExitsTable when a match of the Section pattern ends table mode too.
ExitsTableOnAnyMarker(tag) ==
    is_definitive_heading(tag) \/ matched_level(tag) # None

\* ExitsTable when only a definitive heading ends table mode.
ExitsTableOnAnchorOnly(tag) == is_definitive_heading(tag)

\* The tag ends table mode: "check if this tag marks the end of it".
ExitsTable(tag) == is_definitive_heading(tag) \/ MatchesNonSection(tag)

\* StartsTable without the test of the tag's name.
StartsTableAnyTag(tag) == IsTableOfSections(get_text(tag))

\* The tag starts a table of sections.
StartsTable(tag) == tag.name = "p" /\ IsTableOfSections(get_text(tag))

\* SectionActive without its test: a tag is kept with no section open.
SectionActiveAlways == TRUE

\* "if current_key and found_first_section"
SectionActive == current_key # None /\ found_first_section

\* AppendTag when the tag goes right after the first tag of the snippet, not
\* at its end.
AppendTagAfterFirst(m) ==
    /\ current_html_snippet_tags' =
           IF current_html_snippet_tags = <<>> THEN <<m>>
           ELSE <<Head(current_html_snippet_tags), m>>
                \o Tail(current_html_snippet_tags)
    /\ UNCHANGED <<sections_dict, ordered_keys, current_key,
                   found_first_section, opened_at>>

AppendTag(m) ==
    /\ current_html_snippet_tags' = Append(current_html_snippet_tags, m)
    /\ UNCHANGED <<sections_dict, ordered_keys, current_key,
                   found_first_section, opened_at>>

SkipTag ==
    UNCHANGED <<sections_dict, ordered_keys, current_key,
                current_html_snippet_tags, found_first_section, opened_at>>

\* StartSection when a key already in sections_dict keeps its first entry.
StartSectionKeepFirst(tag, m) ==
    LET finalized == Finalize(sections_dict, current_key,
                              current_html_snippet_tags)
        key == new_key(tag)
    IN  /\ sections_dict' = IF Has(finalized, key) THEN finalized
                            ELSE Put(finalized, key, section_info(tag))
        /\ ordered_keys' = Append(ordered_keys, key)
        /\ current_key' = key
        /\ current_html_snippet_tags' = <<m>>
        /\ found_first_section' = TRUE
        /\ opened_at' = Append(opened_at, m.pos)

\* "if matched_level:" finalize the previous section and start the new one.
StartSection(tag, m) ==
    LET finalized == Finalize(sections_dict, current_key,
                              current_html_snippet_tags)
        key == new_key(tag)
    IN  IF key # ""
        THEN /\ sections_dict' = Put(finalized, key, section_info(tag))
             /\ ordered_keys' = Append(ordered_keys, key)
             /\ current_key' = key
             /\ current_html_snippet_tags' = <<m>>
             /\ found_first_section' = TRUE
             /\ opened_at' = Append(opened_at, m.pos)
        ELSE /\ sections_dict' = finalized
             /\ current_key' = None
             /\ UNCHANGED <<ordered_keys, current_html_snippet_tags,
                            found_first_section, opened_at>>

\* One round of "for tag in content_tags", for the next tag of the document.
ReadTag(tag) ==
    /\ stage = "scan"
    /\ input = "html_content"
    /\ content_tags' = Append(content_tags, tag)
    /\ raw_text' = get_text(tag)
    /\ text' = normalize_hyphens(get_text(tag))
    /\ classified' = classify(normalize_hyphens(get_text(tag)))
    /\ LET m == Markup(Len(content_tags) + 1, tag)
       IN  IF in_table_of_sections /\ ~ExitsTable(tag)
           THEN /\ in_table_of_sections' = TRUE
                /\ IF SectionActive THEN AppendTag(m) ELSE SkipTag
           ELSE IF StartsTable(tag)
           THEN /\ in_table_of_sections' = TRUE
                /\ IF SectionActive THEN AppendTag(m) ELSE SkipTag
           ELSE /\ in_table_of_sections' = FALSE
                /\ IF matched_level(tag) # None
                   THEN StartSection(tag, m)
                   ELSE IF SectionActive /\ Has(sections_dict, current_key)
                   THEN AppendTag(m)
                   ELSE SkipTag
    /\ UNCHANGED <<toolVars, parseVars, runVars, stage, i, keys_to_remove,
                   parent_html_stack, final_sections, output, scanned,
                   normalized>>

\* A round of the loop in a document of at most MaxNodes tags.
ScanTag(tag) == Len(content_tags) < MaxNodes /\ ReadTag(tag)

(***************************************************************************)
(* An html_content that is empty: "if not html_content: return {}" gives   *)
(* the main block one value, an empty dict, where its assignment           *)
(* "sections, ordered_keys = extract_html_sections(html_to_parse)" unpacks *)
(* two: the assignment raises ValueError, and the run ends there.          *)
(***************************************************************************)
NoHtmlContent ==
    /\ stage = "scan"
    /\ input = "empty html_content"
    /\ stage' = "raised"
    /\ exit_status' = 1
    /\ UNCHANGED <<toolVars, parseVars, input, textVars, content_tags,
                   scanVars, i,
                   keys_to_remove, parent_html_stack, final_sections, output,
                   scanned, normalized>>

\* EndScan without "Finalize the last section": the function returns
\* sections_dict as the loop left it.
EndScanUnflushed ==
    /\ stage = "scan"
    /\ input = "html_content"
    /\ scanned' = sections_dict
    /\ normalized' = sections_dict
    /\ stage' = IF DOMAIN sections_dict # {} /\ ordered_keys # <<>>
                THEN "table" ELSE "save"
    /\ i' = 0
    /\ UNCHANGED <<toolVars, parseVars, runVars, textVars, content_tags,
                   scanVars,
                   keys_to_remove, parent_html_stack, final_sections, output>>

\* EndScan when the main block goes to post_process_guides without the
\* table pass.
EndScanToGuides ==
    /\ stage = "scan"
    /\ input = "html_content"
    /\ LET dict == Finalize(sections_dict, current_key,
                            current_html_snippet_tags)
       IN  /\ sections_dict' = dict
           /\ scanned' = dict
           /\ normalized' = dict
           /\ stage' = IF DOMAIN dict = {} \/ ordered_keys = <<>> THEN "save"
                       ELSE IF Len(ordered_keys) > 1 THEN "guides"
                       ELSE "remove"
    /\ i' = 0
    /\ UNCHANGED <<toolVars, parseVars, runVars, textVars, content_tags,
                   ordered_keys,
                   current_key, current_html_snippet_tags,
                   found_first_section, in_table_of_sections, keys_to_remove,
                   parent_html_stack, final_sections, output, opened_at>>

(***************************************************************************)
(* The end of the loop: the last section is finalized and the function     *)
(* returns; the main block runs the post-passes "if sections and           *)
(* ordered_keys" and saves sections as they are otherwise.                 *)
(***************************************************************************)
EndScan ==
    /\ stage = "scan"
    /\ input = "html_content"
    /\ LET dict == Finalize(sections_dict, current_key,
                            current_html_snippet_tags)
       IN  /\ sections_dict' = dict
           /\ scanned' = dict
           /\ normalized' = dict
           /\ stage' = IF DOMAIN dict # {} /\ ordered_keys # <<>>
                       THEN "table" ELSE "save"
    /\ i' = 0
    /\ UNCHANGED <<toolVars, parseVars, runVars, textVars, content_tags,
                   ordered_keys,
                   current_key, current_html_snippet_tags,
                   found_first_section, in_table_of_sections, keys_to_remove,
                   parent_html_stack, final_sections, output, opened_at>>

(***************************************************************************)
(* post_process_table_of_sections                                          *)
(***************************************************************************)

\* p_tag.get_text(strip=True).lower() == 'table of sections', over find_all('p')
IsTableHeader(m) ==
    m.kind = "tag" /\ m.tag.name = "p" /\ IsTableOfSections(get_text(m.tag))

\* The place of the first table header in html, 0 when there is none.
RECURSIVE HeaderFrom(_, _)
HeaderFrom(html, j) ==
    IF j > Len(html) THEN 0
    ELSE IF IsTableHeader(html[j]) THEN j
    ELSE HeaderFrom(html, j + 1)

\* table_header_tag as the first header that a reference paragraph follows,
\* instead of the first header.
table_header_tag_with_reference(html) ==
    LET headers == {j \in 1..(Len(html) - 1) :
                       /\ IsTableHeader(html[j])
                       /\ html[j + 1].kind = "tag"
                       /\ html[j + 1].tag.name = "p"
                       /\ html[j + 1].tag.ref # ""}
    IN  IF headers = {} THEN 0
        ELSE CHOOSE j \in headers : \A k \in headers : j <= k

table_header_tag(html) == HeaderFrom(html, 1)

(***************************************************************************)
(* Check 1 of the loop: section_heading_pattern.search(html) and           *)
(* '<a id="_Toc' in html.  The pattern is anchored at the start of html,   *)
(* which is str() of a <p> tag and so starts with "<p"; the pattern        *)
(* admits there only white space, an <a id="_Toc..."></a> and a digit.     *)
(***************************************************************************)
MarkupHead(m) == "<" \o m.tag.name

SectionHeadingSearch(m) == MarkupHead(m) \in {"<a"} /\ m.tag.ref # ""

IsHeadingMarker(m) == SectionHeadingSearch(m) /\ is_definitive_heading(m.tag)

\* Check 2: section_ref_pattern.match(cleaned_text)
IsSectionRef(m) == m.tag.ref # ""

\* The number of siblings after place j that the while loop consumes.
RECURSIVE Consumed(_, _)
Consumed(html, j) ==
    IF j + 1 > Len(html) THEN 0
    ELSE LET next_tag == html[j + 1]
         IN  IF next_tag.kind = "tag" /\ next_tag.tag.name = "p"
                /\ ~IsHeadingMarker(next_tag) /\ IsSectionRef(next_tag)
             THEN 1 + Consumed(html, j + 1)
             ELSE 0

\* (section_num, title_html) of a consumed paragraph, as the <li> shows it.
ListItem(m) ==
    LET cleaned_text == get_text(m.tag)
        num == m.tag.ref
    IN  [section_num |-> num,
         title |-> SubSeq(cleaned_text, Len(num) + 2, Len(cleaned_text)),
         pos |-> m.pos]

\* The <ul> inserted after the header, for the consumed paragraphs refs.
ListMarkup(refs) ==
    [kind |-> "ul", items |-> [j \in 1..Len(refs) |-> ListItem(refs[j])]]

\* len(section_refs): 0 also when the section has no table header.
section_refs(html) ==
    IF table_header_tag(html) = 0 THEN 0
    ELSE Consumed(html, table_header_tag(html))

\* NormalizedHtml with the list put at the end of the markup, after the
\* siblings that were not consumed.
NormalizedHtmlListLast(html) ==
    LET h == table_header_tag(html)
        n == section_refs(html)
    IN  IF n = 0 THEN html
        ELSE SubSeq(html, 1, h)
             \o SubSeq(html, h + n + 1, Len(html))
             \o <<ListMarkup(SubSeq(html, h + 1, h + n))>>

\* str(soup) after the list has replaced the consumed paragraphs.
NormalizedHtml(html) ==
    LET h == table_header_tag(html)
        n == section_refs(html)
    IN  IF n = 0 THEN html
        ELSE SubSeq(html, 1, h)
             \o <<ListMarkup(SubSeq(html, h + 1, h + n))>>
             \o SubSeq(html, h + n + 1, Len(html))

\* NormalizeSection without "if section_refs:": a list, empty when no
\* paragraph was consumed, is put after every table header found.
NormalizeSectionAlways(dict, key) ==
    IF ~Has(dict, key) THEN dict
    ELSE IF Get(dict[key], "html", <<>>) = <<>> THEN dict
    ELSE IF table_header_tag(dict[key].html) = 0 THEN dict
    ELSE LET html == dict[key].html
             h == table_header_tag(html)
             n == section_refs(html)
         IN  [dict EXCEPT ![key] =
                  WithHtml(@, SubSeq(html, 1, h)
                              \o <<ListMarkup(SubSeq(html, h + 1, h + n))>>
                              \o SubSeq(html, h + n + 1, Len(html)))]

\* One round of "for key in ordered_keys".
NormalizeSection(dict, key) ==
    IF ~Has(dict, key) THEN dict
    ELSE IF Get(dict[key], "html", <<>>) = <<>> THEN dict
    ELSE IF section_refs(dict[key].html) = 0 THEN dict
    ELSE [dict EXCEPT ![key] = WithHtml(@, NormalizedHtml(dict[key].html))]

TableStep ==
    /\ stage = "table"
    /\ i < Len(ordered_keys)
    /\ sections_dict' = NormalizeSection(sections_dict, ordered_keys[i + 1])
    /\ normalized' = sections_dict'
    /\ IF i + 1 < Len(ordered_keys)
       THEN /\ i' = i + 1
            /\ stage' = "table"
       ELSE /\ i' = 0
            /\ stage' = IF Len(ordered_keys) > 1 THEN "guides" ELSE "remove"
    /\ UNCHANGED <<toolVars, parseVars, runVars, textVars, content_tags,
                   ordered_keys,
                   current_key, current_html_snippet_tags,
                   found_first_section, in_table_of_sections, keys_to_remove,
                   parent_html_stack, final_sections, output, scanned,
                   opened_at>>

(***************************************************************************)
(* post_process_guides                                                     *)
(***************************************************************************)

\* cleaned_guide_html without the substitution: the number stays.
cleaned_guide_html_unstripped(html) == html

\* re.sub(r'\s+\d+\s*(?=</[^>]+>\s*$)', '', guide_html.strip()): a number
\* that ends the text of the last tag of the markup is removed.
cleaned_guide_html(html) ==
    IF html = <<>> THEN html
    ELSE LET last == html[Len(html)]
         IN  IF last.kind = "tag" /\ last.tag.page # ""
             THEN [html EXCEPT ![Len(html)] = [last EXCEPT !.tag.page = ""]]
             ELSE html

\* MergedHtml with the guide put after the target's markup.
MergedHtmlAppended(guide_html, target_html) ==
    target_html \o cleaned_guide_html(guide_html)

\* target_section['html'] = cleaned_guide_html + "\n" + target_html
MergedHtml(guide_html, target_html) ==
    cleaned_guide_html(guide_html) \o target_html

\* MergeGuide when the Guide is only marked for removal, and not merged.
MergeGuideSkipped(dict, guide_key, next_key) == dict

\* MergeGuide when the markup merged is the Guide's as the table pass left
\* it: what an earlier Guide was merged into it is not carried forward.
MergeGuideOriginal(dict, guide_key, next_key) ==
    IF StartsWithGuideTo(guide_key) /\ Has(dict, guide_key)
       /\ Has(dict, next_key) /\ Get(dict[guide_key], "html", <<>>) # <<>>
    THEN [dict EXCEPT ![next_key] =
              WithHtml(@, MergedHtml(normalized[guide_key].html,
                                     Get(dict[next_key], "html", <<>>)))]
    ELSE dict

\* One round of "for i in range(len(ordered_keys) - 1)".
MergeGuide(dict, guide_key, next_key) ==
    IF StartsWithGuideTo(guide_key) /\ Has(dict, guide_key)
       /\ Has(dict, next_key) /\ Get(dict[guide_key], "html", <<>>) # <<>>
    THEN [dict EXCEPT ![next_key] =
              WithHtml(@, MergedHtml(dict[guide_key].html,
                                     Get(dict[next_key], "html", <<>>)))]
    ELSE dict

\* MarkedForRemoval without the test of the key's start: every key the guide
\* pass looks at is marked.
MarkedForRemovalAnyKey(marked, dict, guide_key) ==
    IF Has(dict, guide_key) THEN Append(marked, guide_key) ELSE marked

\* keys_to_remove after that round.
MarkedForRemoval(marked, dict, guide_key) ==
    IF StartsWithGuideTo(guide_key) /\ Has(dict, guide_key)
    THEN Append(marked, guide_key)
    ELSE marked

\* range(len(ordered_keys) - 1)
GuideRange == Len(ordered_keys) - 1

GuideStep ==
    /\ stage = "guides"
    /\ i < GuideRange
    /\ sections_dict' =
           MergeGuide(sections_dict, ordered_keys[i + 1], ordered_keys[i + 2])
    /\ keys_to_remove' =
           MarkedForRemoval(keys_to_remove, sections_dict, ordered_keys[i + 1])
    /\ IF i + 1 < GuideRange
       THEN /\ i' = i + 1
            /\ stage' = "guides"
       ELSE /\ i' = 0
            /\ stage' = "remove"
    /\ UNCHANGED <<toolVars, parseVars, runVars, textVars, content_tags,
                   ordered_keys,
                   current_key, current_html_snippet_tags,
                   found_first_section, in_table_of_sections,
                   parent_html_stack, final_sections, output, scanned,
                   normalized, opened_at>>

\* "for key in keys_to_remove: if key in sections_dict: del sections_dict[key]"
RECURSIVE RemoveKeys(_, _)
RemoveKeys(dict, keys) ==
    IF keys = <<>> THEN dict
    ELSE RemoveKeys(IF Has(dict, Head(keys)) THEN Del(dict, Head(keys))
                    ELSE dict,
                    Tail(keys))

GuideRemove ==
    /\ stage = "remove"
    /\ sections_dict' = RemoveKeys(sections_dict, keys_to_remove)
    /\ stage' = "consolidate"
    /\ i' = 0
    /\ UNCHANGED <<toolVars, parseVars, runVars, textVars, content_tags,
                   ordered_keys,
                   current_key, current_html_snippet_tags,
                   found_first_section, in_table_of_sections, keys_to_remove,
                   parent_html_stack, final_sections, output, scanned,
                   normalized, opened_at>>

(***************************************************************************)
(* consolidate_to_sections                                                 *)
(***************************************************************************)
get_structure_level(structure_type) ==
    CASE structure_type = "Chapter" -> 1
      [] structure_type = "Part" -> 2
      [] structure_type = "Division" -> 3
      [] structure_type = "Subdivision" -> 4
      [] structure_type = "Section" -> 5
      [] structure_type = "Guide" -> 0
      [] OTHER -> 99

\* PopStack with ">" for ">=": a header of the same level stays on the stack.
RECURSIVE PopStackStrict(_, _)
PopStackStrict(stack, current_level) ==
    IF stack # <<>> /\ stack[Len(stack)].level > current_level
    THEN PopStackStrict(SubSeq(stack, 1, Len(stack) - 1), current_level)
    ELSE stack

\* "while parent_html_stack and parent_html_stack[-1][0] >= current_level"
RECURSIVE PopStack(_, _)
PopStack(stack, current_level) ==
    IF stack # <<>> /\ stack[Len(stack)].level >= current_level
    THEN PopStack(SubSeq(stack, 1, Len(stack) - 1), current_level)
    ELSE stack

\* parent_html_content joined from the top of the stack down.
RECURSIVE parent_html_content_reversed(_)
parent_html_content_reversed(stack) ==
    IF stack = <<>> THEN <<>>
    ELSE parent_html_content_reversed(Tail(stack)) \o Head(stack).html

\* "\n".join([html for _, html in parent_html_stack])
RECURSIVE parent_html_content(_)
parent_html_content(stack) ==
    IF stack = <<>> THEN <<>>
    ELSE Head(stack).html \o parent_html_content(Tail(stack))

combined_html(stack, current_html) ==
    IF parent_html_content(stack) # <<>>
    THEN parent_html_content(stack) \o current_html
    ELSE current_html

\* The entry of final_sections made from section with the stack's context.
ConsolidatedSection(section, stack) ==
    LET html == combined_html(stack, Get(section, "html", <<>>))
    IN  [structure_type |-> Get(section, "structure_type", None),
         heading_text |-> Get(section, "heading_text", ""),
         full_id |-> Get(section, "full_id", None),
         primary_id |-> Get(section, "primary_id", None),
         secondary_id |-> Get(section, "secondary_id", None),
         html |-> html,
         text_for_embedding |-> clean_html_for_embedding(html),
         char_count |-> Len(clean_html_for_embedding(html))]

\* The key the loop of consolidate_to_sections is at.
ConsolidateKey == ordered_keys[i + 1]

ConsolidateLevel ==
    get_structure_level(Get(sections_dict[ConsolidateKey],
                            "structure_type", None))

\* The loop goes on to its next key, or ends and the function returns.
ConsolidateNext ==
    /\ i' = i + 1
    /\ stage' = IF i + 1 < Len(ordered_keys) THEN "consolidate" ELSE "save"

\* "if key not in sections_dict: continue"
ConsolidateMissing ==
    /\ stage = "consolidate"
    /\ ~Has(sections_dict, ConsolidateKey)
    /\ ConsolidateNext
    /\ UNCHANGED <<toolVars, parseVars, runVars, textVars, content_tags,
                   scanVars,
                   keys_to_remove, parent_html_stack, final_sections, output,
                   scanned, normalized>>

\* The pop loop for a key of sections_dict.
ConsolidatePop ==
    /\ stage = "consolidate"
    /\ Has(sections_dict, ConsolidateKey)
    /\ parent_html_stack' = PopStack(parent_html_stack, ConsolidateLevel)
    /\ stage' = "place"
    /\ UNCHANGED <<toolVars, parseVars, runVars, textVars, content_tags,
                   scanVars, i,
                   keys_to_remove, final_sections, output, scanned,
                   normalized>>

\* "if 1 <= current_level <= 4": push the header.
ConsolidatePush ==
    /\ stage = "place"
    /\ ConsolidateLevel \in 1..4
    /\ parent_html_stack' =
           Append(parent_html_stack,
                  [level |-> ConsolidateLevel,
                   html |-> Get(sections_dict[ConsolidateKey], "html", <<>>)])
    /\ ConsolidateNext
    /\ UNCHANGED <<toolVars, parseVars, runVars, textVars, content_tags,
                   scanVars,
                   keys_to_remove, final_sections, output, scanned,
                   normalized>>

\* "elif current_level == 5": consolidate the section into final_sections.
ConsolidateEmit ==
    /\ stage = "place"
    /\ ConsolidateLevel = 5
    /\ final_sections' =
           Put(final_sections, ConsolidateKey,
               ConsolidatedSection(sections_dict[ConsolidateKey],
                                   parent_html_stack))
    /\ ConsolidateNext
    /\ UNCHANGED <<toolVars, parseVars, runVars, textVars, content_tags,
                   scanVars,
                   keys_to_remove, parent_html_stack, output, scanned,
                   normalized>>

\* "else": a key of unknown or unhandled structure type is skipped.
ConsolidateSkip ==
    /\ stage = "place"
    /\ ConsolidateLevel \notin 1..5
    /\ ConsolidateNext
    /\ UNCHANGED <<toolVars, parseVars, runVars, textVars, content_tags,
                   scanVars,
                   keys_to_remove, parent_html_stack, final_sections, output,
                   scanned, normalized>>

(***************************************************************************)
(* The main block saves processed_sections: the consolidated sections      *)
(* when the post-passes ran, and sections as scanned otherwise.            *)
(***************************************************************************)
\* processed_sections when the result of consolidate_to_sections is dropped.
processed_sections_unconsolidated == sections_dict

processed_sections ==
    IF DOMAIN scanned # {} /\ ordered_keys # <<>>
    THEN final_sections ELSE sections_dict

save_to_json ==
    /\ stage = "save"
    /\ output' = processed_sections
    /\ stage' = "done"
    /\ UNCHANGED <<toolVars, parseVars, runVars, textVars, content_tags,
                   scanVars, i,
                   keys_to_remove, parent_html_stack, final_sections, scanned,
                   normalized>>

Next ==
    \/ LoadInput
    \/ NoHtmlContent
    \/ \E tag \in ContentNodes : ScanTag(tag)
    \/ EndScan
    \/ TableStep
    \/ GuideStep
    \/ GuideRemove
    \/ ConsolidateMissing
    \/ ConsolidatePop
    \/ ConsolidatePush
    \/ ConsolidateEmit
    \/ ConsolidateSkip
    \/ save_to_json

Spec == Init /\ [][Next]_vars

(***************************************************************************)
(* Whole documents.  The same program reading one of a few longer          *)
(* documents, or a document that one of them starts with.                  *)
(***************************************************************************)
Intro == Tag("p", "Introduction", "", FALSE, None, "", "", "", "")

BodyText == Tag("p", "Some body text", "", FALSE, None, "", "", "", "")

MoreText == Tag("p", "More text", "", FALSE, None, "", "", "", "")

PartHeading == Tag("p", "Part 1-1 General", "", TRUE, "Part", "1-1", "", "General", "")

OtherPartHeading ==
    Tag("p", "Part 1-2 Other", "", TRUE, "Part", "1-2", "", "Other", "")

DivisionHeading ==
    Tag("p", "Division 1 Preliminary", "", TRUE,
        "Division", "1", "", "Preliminary", "")

GuideHeading ==
    Tag("p", "Guide to Division 40 Cost base", " 7", TRUE,
        "Guide", "40", "Division", "Cost base", "")

OtherGuideHeading ==
    Tag("p", "Guide to Part 1-1 General", " 5", TRUE,
        "Guide", "1-1", "Part", "General", "")

SectionHeading ==
    Tag("p", "40-25 Meaning of assessable income", "", TRUE,
        "Section", "40-25", "", "Meaning of assessable income", "40-25")

OtherSectionHeading ==
    Tag("p", "40-50 Other rule", "", TRUE,
        "Section", "40-50", "", "Other rule", "40-50")

TableHeader == Tag("p", "Table of sections", "", FALSE, None, "", "", "", "")

\* Lines of a table of sections: no anchor, a page number at the end.
FirstReference ==
    Tag("p", "40-25 Meaning of income", " 12", FALSE,
        "Section", "40-25", "", "Meaning of income", "40-25")

SecondReference ==
    Tag("p", "40-30 Deductions", " 13", FALSE,
        "Section", "40-30", "", "Deductions", "40-30")

ThirdReference ==
    Tag("p", "40-35 Capital allowances", " 14", FALSE,
        "Section", "40-35", "", "Capital allowances", "40-35")

\* Headings of two levels over a Section, then a Part that closes them.
HierarchyDocument ==
    <<Intro, PartHeading, DivisionHeading, SectionHeading, BodyText,
      OtherPartHeading, OtherSectionHeading, MoreText>>

\* A Guide and the Section after it.
GuideDocument == <<GuideHeading, BodyText, SectionHeading, MoreText>>

\* A table of three lines in a Division, ended by a Section's heading.
TableDocument ==
    <<DivisionHeading, TableHeader, FirstReference, SecondReference,
      ThirdReference, SectionHeading>>

\* A table of two lines, ended by a paragraph that is no reference.
TableTailDocument ==
    <<DivisionHeading, TableHeader, FirstReference, SecondReference,
      BodyText, ThirdReference>>

\* A Part with two table headers, the second one with the lines.
TwoTablesDocument ==
    <<PartHeading, TableHeader, BodyText, TableHeader, FirstReference,
      SecondReference>>

\* Two Guides, the first with a paragraph of its own, and the Section after
\* them.
TwoGuidesDocument ==
    <<GuideHeading, BodyText, OtherGuideHeading, SectionHeading, MoreText>>

\* A Part whose heading comes twice, so that its key is twice in
\* ordered_keys; the second one has two tables of one line each.
DuplicateTablesDocument ==
    <<PartHeading, BodyText, PartHeading, TableHeader, FirstReference,
      TableHeader, SecondReference>>

Documents ==
    {HierarchyDocument, GuideDocument, TableDocument, TableTailDocument,
     TwoTablesDocument, TwoGuidesDocument, DuplicateTablesDocument}

\* A round of the loop in a document that one of Documents starts with.
ScanDocument ==
    \E document \in Documents :
        /\ Len(content_tags) < Len(document)
        /\ SubSeq(document, 1, Len(content_tags)) = content_tags
        /\ ReadTag(document[Len(content_tags) + 1])

NextDocuments ==
    \/ LoadInput
    \/ NoHtmlContent
    \/ ScanDocument
    \/ EndScan
    \/ TableStep
    \/ GuideStep
    \/ GuideRemove
    \/ ConsolidateMissing
    \/ ConsolidatePop
    \/ ConsolidatePush
    \/ ConsolidateEmit
    \/ ConsolidateSkip
    \/ save_to_json

SpecDocuments == Init /\ [][NextDocuments]_vars

(***************************************************************************)
(* normalize_hyphens by itself, on every text of at most MaxTextLen        *)
(* characters: a letter, a space, the five characters of the class and the *)
(* two dashes that are not in it.                                          *)
(***************************************************************************)
MaxTextLen == 4

Alphabet ==
    {"a", " ", standard_hyphen, Hyphen, NonBreakingHyphen, FigureDash,
     EnDash, EmDash, HorizontalBar}

RECURSIVE TextsOfLength(_)
TextsOfLength(n) ==
    IF n = 0 THEN {""}
    ELSE {t \o c : t \in TextsOfLength(n - 1), c \in Alphabet}

Texts == UNION {TextsOfLength(n) : n \in 0..MaxTextLen}

InitNormalize ==
    /\ ToolsIdle
    /\ input = "html_content"
    /\ exit_status = 0
    /\ raw_text \in Texts
    /\ text = ""
    /\ classified = None
    /\ content_tags = <<>>
    /\ sections_dict = EmptyDict
    /\ ordered_keys = <<>>
    /\ current_key = None
    /\ current_html_snippet_tags = <<>>
    /\ found_first_section = FALSE
    /\ in_table_of_sections = FALSE
    /\ stage = "read"
    /\ i = 0
    /\ keys_to_remove = <<>>
    /\ parent_html_stack = <<>>
    /\ final_sections = EmptyDict
    /\ output = None
    /\ scanned = EmptyDict
    /\ normalized = EmptyDict
    /\ opened_at = <<>>
    /\ suspended = <<>>
    /\ first_parse = <<>>

\* text = normalize_hyphens(raw_text)
NormalizeText ==
    /\ stage = "read"
    /\ text' = normalize_hyphens(raw_text)
    /\ stage' = "normalized"
    /\ UNCHANGED <<toolVars, parseVars, runVars, raw_text, classified,
                   content_tags,
                   scanVars, i, keys_to_remove, parent_html_stack,
                   final_sections, output, scanned, normalized>>

\* normalize_hyphens applied to its own result.
NormalizeAgain ==
    /\ stage = "normalized"
    /\ text' = normalize_hyphens(text)
    /\ stage' = "normalized again"
    /\ UNCHANGED <<toolVars, parseVars, runVars, raw_text, classified,
                   content_tags,
                   scanVars, i, keys_to_remove, parent_html_stack,
                   final_sections, output, scanned, normalized>>

NextNormalize == NormalizeText \/ NormalizeAgain

SpecNormalize == InitNormalize /\ [][NextNormalize]_vars

(***************************************************************************)
(* Several parses in one run.  What a parse works on are the locals of the *)
(* functions it calls; a parse that is not running keeps them as they     *)
(* are.  The first parse of the run is alone; after it a parse can be set  *)
(* aside for another one at any step, and a new one can follow a parse     *)
(* that has ended.                                                         *)
(***************************************************************************)
\* The locals of the parse that runs.
Frame ==
    [content_tags |-> content_tags,
     sections_dict |-> sections_dict,
     ordered_keys |-> ordered_keys,
     current_key |-> current_key,
     current_html_snippet_tags |-> current_html_snippet_tags,
     found_first_section |-> found_first_section,
     in_table_of_sections |-> in_table_of_sections,
     stage |-> stage,
     i |-> i,
     keys_to_remove |-> keys_to_remove,
     parent_html_stack |-> parent_html_stack,
     final_sections |-> final_sections,
     output |-> output,
     scanned |-> scanned,
     normalized |-> normalized,
     opened_at |-> opened_at,
     raw_text |-> raw_text,
     classified |-> classified,
     text |-> text]

\* The parse of frame is the one that runs next.
Resume(frame) ==
    /\ content_tags' = frame.content_tags
    /\ sections_dict' = frame.sections_dict
    /\ ordered_keys' = frame.ordered_keys
    /\ current_key' = frame.current_key
    /\ current_html_snippet_tags' = frame.current_html_snippet_tags
    /\ found_first_section' = frame.found_first_section
    /\ in_table_of_sections' = frame.in_table_of_sections
    /\ stage' = frame.stage
    /\ i' = frame.i
    /\ keys_to_remove' = frame.keys_to_remove
    /\ parent_html_stack' = frame.parent_html_stack
    /\ final_sections' = frame.final_sections
    /\ output' = frame.output
    /\ scanned' = frame.scanned
    /\ normalized' = frame.normalized
    /\ opened_at' = frame.opened_at
    /\ raw_text' = frame.raw_text
    /\ classified' = frame.classified
    /\ text' = frame.text

\* The locals as the functions set them when they are entered:
\* "sections_dict = {}", "ordered_keys = []", "current_key = None",
\* "current_html_snippet_tags = []", "found_first_section = False",
\* "in_table_of_sections = False" in extract_html_sections,
\* "keys_to_remove = []" in post_process_guides, "final_sections = {}" and
\* "parent_html_stack = []" in consolidate_to_sections.
FreshFrame ==
    [content_tags |-> <<>>,
     sections_dict |-> EmptyDict,
     ordered_keys |-> <<>>,
     current_key |-> None,
     current_html_snippet_tags |-> <<>>,
     found_first_section |-> FALSE,
     in_table_of_sections |-> FALSE,
     stage |-> "scan",
     i |-> 0,
     keys_to_remove |-> <<>>,
     parent_html_stack |-> <<>>,
     final_sections |-> EmptyDict,
     output |-> None,
     scanned |-> EmptyDict,
     normalized |-> EmptyDict,
     opened_at |-> <<>>,
     raw_text |-> "",
     classified |-> None,
     text |-> ""]

\* NewFrame when parent_html_stack is one list of the module, not made anew
\* by consolidate_to_sections: a parse starts with what the parse before it
\* left there.
NewFrameSharedStack(previous) ==
    [FreshFrame EXCEPT !.parent_html_stack = previous.parent_html_stack]

\* The locals of a parse that starts, whatever the parse before it left.
NewFrame(previous) == FreshFrame

\* The documents parsed: a Section and a Guide after it, a Part and its
\* Section, a Guide and the Section it is merged into.
ParseDocuments ==
    {<<SectionHeading, GuideHeading>>,
     <<PartHeading, SectionHeading>>,
     <<GuideHeading, BodyText, SectionHeading>>}

\* A round of the loop in one of ParseDocuments.
ScanParse ==
    \E document \in ParseDocuments :
        /\ Len(content_tags) < Len(document)
        /\ SubSeq(document, 1, Len(content_tags)) = content_tags
        /\ ReadTag(document[Len(content_tags) + 1])

\* The loop ends at the end of the document.
EndScanParse ==
    /\ content_tags \in ParseDocuments
    /\ EndScan

\* A parse has ended and another one starts; the first parse of the run is
\* kept as it ended.
StartParse ==
    /\ stage = "done"
    /\ first_parse' = IF first_parse = <<>> THEN <<Frame>> ELSE first_parse
    /\ Resume(NewFrame(Frame))
    /\ UNCHANGED <<toolVars, runVars, suspended>>

\* The parse that runs is set aside, for the one that was set aside before
\* or, when there is none, for a parse that starts.
Switch ==
    /\ first_parse # <<>>
    /\ suspended' = <<Frame>>
    /\ Resume(IF suspended = <<>> THEN NewFrame(Frame) ELSE suspended[1])
    /\ UNCHANGED <<toolVars, runVars, first_parse>>

InitParses == Init /\ input = "html_content"

NextParses ==
    \/ LoadInput
    \/ ScanParse
    \/ EndScanParse
    \/ TableStep
    \/ GuideStep
    \/ GuideRemove
    \/ ConsolidateMissing
    \/ ConsolidatePop
    \/ ConsolidatePush
    \/ ConsolidateEmit
    \/ ConsolidateSkip
    \/ save_to_json
    \/ StartParse
    \/ Switch

SpecParses == InitParses /\ [][NextParses]_vars

(***************************************************************************)
(* The classification alone.  A text made of a keyword, a separator, an     *)
(* identifier and a rest is normalized and matched against the patterns.   *)
(***************************************************************************)
TextKeywords ==
    {"Chapter", "Part", "part", "Division", "Subdivision", "SUBDIVISION",
     "Guide to Division", "Guide to Part", "Guide to", "Partition"}

TextSeparators == {" ", "", "  ", NoBreakSpace}

TextIdentifiers ==
    {"2", "12A", "1234", "1-1", "1" \o EnDash \o "1", "40-B", "40A-25",
     "40" \o EmDash \o "25", "X"}

TextRests == {"", " General", " General 7", "-General"}

ClassifierTexts ==
    {keyword \o separator \o identifier \o rest :
        keyword \in TextKeywords, separator \in TextSeparators,
        identifier \in TextIdentifiers, rest \in TextRests}
    \cup {identifier \o rest :
            identifier \in TextIdentifiers, rest \in TextRests}
    \cup {"<strong>40-25</strong> Meaning", "", "Some body text",
          "Table of sections"}

InitClassify ==
    /\ ToolsIdle
    /\ input = "html_content"
    /\ exit_status = 0
    /\ raw_text \in ClassifierTexts
    /\ text = ""
    /\ classified = None
    /\ content_tags = <<>>
    /\ sections_dict = EmptyDict
    /\ ordered_keys = <<>>
    /\ current_key = None
    /\ current_html_snippet_tags = <<>>
    /\ found_first_section = FALSE
    /\ in_table_of_sections = FALSE
    /\ stage = "read"
    /\ i = 0
    /\ keys_to_remove = <<>>
    /\ parent_html_stack = <<>>
    /\ final_sections = EmptyDict
    /\ output = None
    /\ scanned = EmptyDict
    /\ normalized = EmptyDict
    /\ opened_at = <<>>
    /\ suspended = <<>>
    /\ first_parse = <<>>

\* "text = normalize_hyphens(raw_text)", then the loop over the patterns.
ClassifyText ==
    /\ stage = "read"
    /\ text' = normalize_hyphens(raw_text)
    /\ classified' = classify(text')
    /\ stage' = "classified"
    /\ UNCHANGED <<toolVars, parseVars, runVars, raw_text, content_tags,
                   scanVars, i,
                   keys_to_remove, parent_html_stack, final_sections, output,
                   scanned, normalized>>

NextClassify == ClassifyText

SpecClassify == InitClassify /\ [][NextClassify]_vars

(***************************************************************************)
(* process_act.py: main deletes the stored rows of the configured acts and *)
(* then runs process_single_file on each file of the configuration; the    *)
(* last step of a file runs upload_to_supabase.py, which upserts the       *)
(* records of the file in batches.  What the external scripts, the         *)
(* database and the file system answer is chosen freely at each step.      *)
(***************************************************************************)
MaxFiles == 2

MaxBatches == 2

\* The act names of the configuration, in the order sorted() gives them.
ActNames == <<"Act A", "Act B">>

\* An act whose rows are in the table and that is not configured.
OtherAct == "Act C"

FileA == [path |-> "a.docx", act_name |-> "Act A", exists |-> TRUE]

FileB == [path |-> "b.docx", act_name |-> "Act B", exists |-> TRUE]

\* A configured file that is not on the disk.
MissingFile == [path |-> "missing.docx", act_name |-> "Act A", exists |-> FALSE]

\* An entry that read_config refuses: its path does not end with ".docx".
InvalidItem == [path |-> "notes.txt", act_name |-> "Act B", exists |-> TRUE]

FileInfos == {FileA, FileB, MissingFile, InvalidItem}

RECURSIVE ConfigsOfLength(_)
ConfigsOfLength(n) ==
    IF n = 0 THEN {<<>>}
    ELSE {Append(c, f) : c \in ConfigsOfLength(n - 1), f \in FileInfos}

\* The "docx_files" lists of the configuration file.
Configs == UNION {ConfigsOfLength(n) : n \in 0..MaxFiles}

\* The rows a former run has left: section_key is unique in the table.
StoredRows ==
    {[section_key |-> k, act_name |-> a, file |-> 0] :
        k \in 1..MaxBatches, a \in {ActNames[1], ActNames[2], OtherAct}}

Stores ==
    {rows \in SUBSET StoredRows :
        \A r, q \in rows : r.section_key = q.section_key => r = q}

\* read_config returns None for the data when an entry is refused.
IsValidItem(item) == item.path \in {"a.docx", "b.docx", "missing.docx"}

\* is_none: the data that read_config returns is None.
read_config(config) ==
    LET refused == \E j \in 1..Len(config) : ~IsValidItem(config[j])
    IN  [is_none |-> refused,
         config_data |-> IF refused THEN <<>> ELSE config]

\* sorted(list(set(item['act_name'] for item in config_data)))
unique_act_names ==
    SelectSeq(ActNames,
              LAMBDA a : \E j \in 1..Len(config_data) :
                             config_data[j].act_name = a)

InitPipeline ==
    /\ stage = "config"
    /\ exit_status = 0
    /\ config_data \in Configs
    /\ store \in Stores
    /\ all_success = TRUE
    /\ act_index = 0
    /\ file_index = 0
    /\ step = 0
    /\ steps_run = <<>>
    /\ total_batches = 0
    /\ batch_index = 0
    /\ failed_batches = {}
    /\ successful_files = 0
    /\ failed_files = 0
    /\ reported = <<>>
    /\ EmfIdle
    /\ ParserIdle

\* main, lines 546-554: a refused configuration ends the run with
\* sys.exit(1), an empty one with return.
ReadConfig ==
    /\ stage = "config"
    /\ IF read_config(config_data).is_none
       THEN stage' = "exit" /\ exit_status' = 1
       ELSE /\ stage' = IF config_data = <<>> THEN "done" ELSE "connect"
            /\ exit_status' = exit_status
    /\ UNCHANGED <<actVars, emfVars, parserVars>>

\* `if not delete_success: sys.exit(1)` without the exit.
PreDeletionFailedIgnored(delete_success) == FALSE

\* `if not delete_success:` of main
PreDeletionFailed(delete_success) == ~delete_success

ConnectOutcomes == {"ok", "no credentials", "client error"}

\* delete_act_data_from_supabase, lines 101-112 and 136-139: without the
\* credentials, or when create_client raises, it returns False.
DeleteConnect ==
    /\ stage = "connect"
    /\ \E outcome \in ConnectOutcomes :
           IF PreDeletionFailed(outcome = "ok")
           THEN stage' = "exit" /\ exit_status' = 1
           ELSE stage' = "delete" /\ exit_status' = exit_status
    /\ UNCHANGED <<actVars, emfVars, parserVars>>

\* A round of `for act_name in act_names_to_delete`: the delete either
\* removes the rows of the act or raises, and the loop goes on.
DeleteAct ==
    /\ stage = "delete"
    /\ act_index < Len(unique_act_names)
    /\ \E raised \in BOOLEAN :
           IF raised
           THEN all_success' = FALSE /\ store' = store
           ELSE /\ all_success' = all_success
                /\ store' = {r \in store :
                                r.act_name # unique_act_names[act_index + 1]}
    /\ act_index' = act_index + 1
    /\ UNCHANGED <<stage, exit_status, config_data, file_index, step,
                   steps_run, total_batches, batch_index, failed_batches,
                   successful_files, failed_files, reported, emfVars,
                   parserVars>>

\* `return all_success`, and lines 566-570 of main.
DeleteDone ==
    /\ stage = "delete"
    /\ act_index = Len(unique_act_names)
    /\ IF PreDeletionFailed(all_success)
       THEN stage' = "exit" /\ exit_status' = 1
       ELSE stage' = "files" /\ exit_status' = exit_status
    /\ UNCHANGED <<actVars, emfVars, parserVars>>

\* process_single_file has returned for the file the loop is at.
Reported(success) ==
    /\ IF success
       THEN /\ successful_files' = successful_files + 1
            /\ failed_files' = failed_files
       ELSE /\ successful_files' = successful_files
            /\ failed_files' = failed_files + 1
    /\ reported' = Append(reported, IF success THEN "success" ELSE "failed")
    /\ file_index' = file_index + 1
    /\ step' = 0
    /\ stage' = "files"

\* A round of `for file_info in config_data` for a file that is not there.
SkipFile ==
    /\ stage = "files"
    /\ step = 0
    /\ file_index < Len(config_data)
    /\ ~config_data[file_index + 1].exists
    /\ Reported(FALSE)
    /\ UNCHANGED <<exit_status, config_data, store, all_success, act_index,
                   steps_run, total_batches, batch_index, failed_batches,
                   emfVars, parserVars>>

\* process_single_file is called for a file that is there.
StartFile ==
    /\ stage = "files"
    /\ step = 0
    /\ file_index < Len(config_data)
    /\ config_data[file_index + 1].exists
    /\ step' = 1
    /\ UNCHANGED <<stage, exit_status, config_data, store, all_success,
                   act_index, file_index, steps_run, total_batches,
                   batch_index, failed_batches, successful_files,
                   failed_files, reported, emfVars, parserVars>>

\* The scripts of the steps, in the order of process_single_file; the
\* sixth one is "Step 5" of the source, after "Step 3.5".
Scripts ==
    <<"docx_to_html.py", "html_parser.py", "convert_emf_images.py",
      "style_html_content.py", "create_embeddings.py",
      "upload_to_supabase.py">>

StepOutcomes == {"ok", "script missing", "CalledProcessError"}

\* StepFailed for subprocess.run without check=True: a script that exits
\* with a status other than 0 is taken as done.
StepFailedUnchecked(outcome) == outcome = "script missing"

\* The `return False` of a step: the script is not found, or
\* subprocess.run(cmd, check=True, ...) raises.
StepFailed(outcome) == outcome \in {"script missing", "CalledProcessError"}

\* One of the steps 1 to 4 (in the source: 1, 2, 3, 3.5, 4).
RunStep ==
    /\ stage = "files"
    /\ step \in 1..5
    /\ \E outcome \in StepOutcomes :
           /\ steps_run' = Append(steps_run,
                                  [file |-> file_index + 1,
                                   script |-> Scripts[step],
                                   outcome |-> outcome])
           /\ IF StepFailed(outcome)
              THEN Reported(FALSE)
              ELSE /\ step' = step + 1
                   /\ UNCHANGED <<stage, file_index, successful_files,
                                  failed_files, reported>>
    /\ UNCHANGED <<exit_status, config_data, store, all_success, act_index,
                   total_batches, batch_index, failed_batches, emfVars,
                   parserVars>>

\* upload_to_supabase.py up to line 98: the data does not load or the
\* client is not made (sys.exit(1)), no record has an embedding
\* (sys.exit(0)), or there are records to insert.
UploadOutcomes ==
    {"script missing", "load error", "client error", "no records", "records"}

\* The status of the script for each way it ends before the batches.
UploadStatus(outcome) ==
    IF outcome \in {"load error", "client error"} THEN 1 ELSE 0

\* Step 5: the upload script is started.
UploadStart ==
    /\ stage = "files"
    /\ step = 6
    /\ \E outcome \in UploadOutcomes :
           /\ steps_run' =
                  Append(steps_run,
                         [file |-> file_index + 1,
                          script |-> Scripts[step],
                          outcome |-> IF outcome = "script missing"
                                      THEN "script missing"
                                      ELSE IF UploadStatus(outcome) # 0
                                      THEN "CalledProcessError"
                                      ELSE "ok"])
           /\ IF outcome = "records"
              THEN /\ \E n \in 1..MaxBatches : total_batches' = n
                   /\ batch_index' = 0
                   /\ stage' = "upload"
                   /\ UNCHANGED <<file_index, step, successful_files,
                                  failed_files, reported>>
              ELSE /\ Reported(outcome = "no records")
                   /\ UNCHANGED <<total_batches, batch_index>>
    /\ UNCHANGED <<exit_status, config_data, store, all_success, act_index,
                   failed_batches, emfVars, parserVars>>

\* upsert(batch, on_conflict='section_key'): the row takes the place of a
\* stored row with its section_key.
Upsert(rows, row) ==
    {r \in rows : r.section_key # row.section_key} \cup {row}

\* A round of `for i in range(0, total_records, BATCH_SIZE)`: the upsert
\* of the batch is executed or raises; `except Exception` prints and the
\* loop goes on.
UploadBatch ==
    /\ stage = "upload"
    /\ batch_index < total_batches
    /\ \E raised \in BOOLEAN :
           IF raised
           THEN /\ failed_batches' =
                       failed_batches
                           \cup {<<file_index + 1, batch_index + 1>>}
                /\ store' = store
           ELSE /\ failed_batches' = failed_batches
                /\ store' =
                       Upsert(store,
                              [section_key |-> batch_index + 1,
                               act_name |->
                                   config_data[file_index + 1].act_name,
                               file |-> file_index + 1])
    /\ batch_index' = batch_index + 1
    /\ UNCHANGED <<stage, exit_status, config_data, all_success, act_index,
                   file_index, step, steps_run, total_batches,
                   successful_files, failed_files, reported, emfVars,
                   parserVars>>

\* The status the script ends with after the loop: main returns after
\* "Finished Supabase Upload (successfully)", whatever the batches did.
upload_exit_status(failed) == 0

\* The script has ended; subprocess.run(cmd, check=True) raises for a
\* status other than 0, and process_single_file returns.
UploadEnd ==
    /\ stage = "upload"
    /\ batch_index = total_batches
    /\ Reported(upload_exit_status(
                    {b \in failed_batches : b[1] = file_index + 1}) = 0)
    /\ UNCHANGED <<exit_status, config_data, store, all_success, act_index,
                   steps_run, total_batches, batch_index, failed_batches,
                   emfVars, parserVars>>

\* The loop over the files has ended: the summary is printed.
Summary ==
    /\ stage = "files"
    /\ step = 0
    /\ file_index = Len(config_data)
    /\ stage' = "done"
    /\ UNCHANGED <<exit_status, actVars, emfVars, parserVars>>

NextPipeline ==
    \/ ReadConfig
    \/ DeleteConnect
    \/ DeleteAct
    \/ DeleteDone
    \/ SkipFile
    \/ StartFile
    \/ RunStep
    \/ UploadStart
    \/ UploadBatch
    \/ UploadEnd
    \/ Summary

SpecPipeline == InitPipeline /\ [][NextPipeline]_vars

(***************************************************************************)
(* convert_emf_images.py: convert_emf_data_to_png_file runs the converter  *)
(* on the image data, again after an attempt that failed, and cleans up    *)
(* the temporary file and directory of each attempt.  What the converter   *)
(* and the file system do at an attempt is chosen freely.                  *)
(***************************************************************************)
MAX_RETRIES == 2

\* The image data: none, data that b64decode refuses, data of an image.
EmfData == {"", "not base64", "emf"}

\* f"data:image/png;base64,{base64_encoded_string}"
DataUri == "data:image/png;base64"

\* What an attempt comes to: mkstemp or mkdtemp raises, the converter runs
\* out of time, it leaves no PNG (or an empty one), the PNG cannot be
\* moved, cropped or read, or the data URI is made.
AttemptOutcomes ==
    {"mkstemp error", "mkdtemp error", "timeout", "no output",
     "post-conversion error", "converted"}

\* The attempt got as far as making its temporary input file.
MadeFile(outcome) == outcome # "mkstemp error"

\* The attempt got as far as making its temporary output directory.
MadeDir(outcome) == outcome \notin {"mkstemp error", "mkdtemp error"}

InitConvert ==
    /\ stage = "convert"
    /\ exit_status = 0
    /\ emf_base64_data \in EmfData
    /\ retry_count = 0
    /\ base64_data_uri = None
    /\ temp_emf_paths = {}
    /\ temp_out_dirs = {}
    /\ attempts = <<>>
    /\ ActIdle
    /\ ParserIdle

\* Lines 118-131: no data, or data that cannot be decoded, returns None.
ConvertStart ==
    /\ stage = "convert"
    /\ stage' = IF emf_base64_data = "emf" THEN "retry" ELSE "returned"
    /\ UNCHANGED <<exit_status, actVars, emfVars, parserVars>>

\* The loop with one round more than `retry_count <= MAX_RETRIES` allows.
RetriesLeftOnceMore(count) == count <= MAX_RETRIES + 1

\* `while retry_count <= MAX_RETRIES`
RetriesLeft(count) == count <= MAX_RETRIES

\* A round of the loop: the try block, the finally block, which removes
\* the file and the directory the attempt made unless the removal raises
\* OSError, and then `break` or `retry_count += 1`.
Attempt ==
    /\ stage = "retry"
    /\ base64_data_uri = None
    /\ RetriesLeft(retry_count)
    /\ \E outcome \in AttemptOutcomes, remove_raised, rmtree_raised \in BOOLEAN :
           /\ remove_raised => MadeFile(outcome)
           /\ rmtree_raised => MadeDir(outcome)
           /\ temp_emf_paths' =
                  IF remove_raised
                  THEN temp_emf_paths \cup {Len(attempts) + 1}
                  ELSE temp_emf_paths
           /\ temp_out_dirs' =
                  IF rmtree_raised
                  THEN temp_out_dirs \cup {Len(attempts) + 1}
                  ELSE temp_out_dirs
           /\ attempts' = Append(attempts,
                                 [outcome |-> outcome,
                                  remove_raised |-> remove_raised,
                                  rmtree_raised |-> rmtree_raised])
           /\ IF outcome = "converted"
              THEN /\ base64_data_uri' = DataUri
                   /\ retry_count' = retry_count
              ELSE /\ base64_data_uri' = base64_data_uri
                   /\ retry_count' = retry_count + 1
    /\ UNCHANGED <<stage, exit_status, emf_base64_data, actVars, parserVars>>

\* The loop has ended, by `break` or by its condition:
\* `return base64_data_uri`.
Return ==
    /\ stage = "retry"
    /\ base64_data_uri # None \/ ~RetriesLeft(retry_count)
    /\ stage' = "returned"
    /\ UNCHANGED <<exit_status, actVars, emfVars, parserVars>>

NextConvert ==
    \/ ConvertStart
    \/ Attempt
    \/ Return

\* Each round ends: the converter is run with timeout=30 and the sleep
\* between two rounds is RETRY_DELAY seconds.
SpecConvert == InitConvert /\ [][NextConvert]_vars /\ WF_vars(NextConvert)

(***************************************************************************)
(* Properties.                                                             *)
(***************************************************************************)

\* The places in the document of the tags a markup is made from.
Positions(html) ==
    UNION { IF html[j].kind = "tag" THEN {html[j].pos}
            ELSE {html[j].items[n].pos : n \in 1..Len(html[j].items)}
            : j \in 1..Len(html) }

\* html ends with suffix.
EndsWith(html, suffix) ==
    /\ Len(suffix) <= Len(html)
    /\ SubSeq(html, Len(html) - Len(suffix) + 1, Len(html)) = suffix

OutputFields ==
    {"structure_type", "heading_text", "full_id", "primary_id",
     "secondary_id", "html", "text_for_embedding", "char_count"}

\* C1: once the output is saved, every record of it is a Section holding the
\* eight output fields under the key "Section-<full_id>", and no key of a
\* Chapter, Part, Division, Subdivision or Guide record of the scan is in it.
C1_OutputHoldsOnlySections ==
    stage = "done" =>
        /\ \A k \in DOMAIN output :
               /\ DOMAIN output[k] = OutputFields
               /\ output[k].structure_type = "Section"
               /\ k = "Section-" \o output[k].full_id
               /\ ~StartsWithGuideTo(k)
        /\ \A k \in DOMAIN scanned :
               scanned[k].structure_type # "Section" => k \notin DOMAIN output

\* A saved output with a Section, from a scan that also held a Guide and a
\* Chapter, Part, Division or Subdivision.
C1_Witness ==
    /\ stage = "done"
    /\ DOMAIN output # {}
    /\ \E k \in DOMAIN scanned : scanned[k].structure_type = "Guide"
    /\ \E k \in DOMAIN scanned :
           scanned[k].structure_type
               \in {"Chapter", "Part", "Division", "Subdivision"}

\* The markup of the frames of level on the stack.
RECURSIVE LevelHtml(_, _)
LevelHtml(stack, level) ==
    IF stack = <<>> THEN <<>>
    ELSE (IF Head(stack).level = level THEN Head(stack).html ELSE <<>>)
         \o LevelHtml(Tail(stack), level)

\* C2: the step that consolidates a Section gives it the markup of the
\* Chapter frame, then the Part frame, then the Division frame, then the
\* Subdivision frame on the stack at that moment, then the Section's own
\* markup - its own markup alone when the stack is empty.
C2_EmitConcatenatesAncestors ==
    [][(stage = "place" /\ ConsolidateLevel = 5) =>
           /\ Has(final_sections', ConsolidateKey)
           /\ final_sections'[ConsolidateKey].html =
                  LevelHtml(parent_html_stack, 1)
                  \o LevelHtml(parent_html_stack, 2)
                  \o LevelHtml(parent_html_stack, 3)
                  \o LevelHtml(parent_html_stack, 4)
                  \o sections_dict[ConsolidateKey].html]_vars

\* A Section has just been consolidated under two open ancestors.
C2_Witness ==
    /\ stage \in {"consolidate", "save"}
    /\ i >= 1
    /\ Has(final_sections, ordered_keys[i])
    /\ Has(sections_dict, ordered_keys[i])
    /\ Len(parent_html_stack) >= 2
    /\ Len(final_sections[ordered_keys[i]].html)
           > Len(sections_dict[ordered_keys[i]].html) + 1

HeldMarkup ==
    {current_html_snippet_tags}
    \cup {Get(sections_dict[k], "html", <<>>) : k \in DOMAIN sections_dict}
    \cup {parent_html_stack[j].html : j \in 1..Len(parent_html_stack)}
    \cup {final_sections[k].html : k \in DOMAIN final_sections}
    \cup (IF stage = "done"
          THEN {Get(output[k], "html", <<>>) : k \in DOMAIN output}
          ELSE {})

\* C4: no tag read before the tag that opened the first record is in the
\* accumulator, in a record's markup or in the output; while no record has
\* been opened, nothing is held at all.
C4_PreambleDiscarded ==
    \A html \in HeldMarkup :
        \A pos \in Positions(html) : opened_at # <<>> /\ pos >= opened_at[1]

\* A saved, non-empty output of a document whose first two tags came before
\* the first record, the second one matching the Section grammar.
C4_Witness ==
    /\ stage = "done"
    /\ DOMAIN output # {}
    /\ opened_at[1] = 3
    /\ matched_level(content_tags[2]) = "Section"

\* C5: the stack holds levels 1..4 only, strictly increasing from bottom to
\* top, and after the pop loop for a record no frame has a level greater
\* than or equal to the record's.
C5_StackStrictlyIncreasing ==
    /\ \A j \in 1..Len(parent_html_stack) :
           parent_html_stack[j].level \in 1..4
    /\ \A j \in 1..Len(parent_html_stack) - 1 :
           parent_html_stack[j].level < parent_html_stack[j + 1].level
    /\ stage = "place" =>
           \A j \in 1..Len(parent_html_stack) :
               parent_html_stack[j].level < ConsolidateLevel

\* The pop loop has run for the third record, a Part, after two headers
\* were pushed, and one frame is left: a frame was popped.
C5_Witness ==
    /\ stage = "place"
    /\ i = 2
    /\ ConsolidateLevel = 2
    /\ Len(parent_html_stack) = 1
    /\ \A j \in 1..2 :
           /\ Has(sections_dict, ordered_keys[j])
           /\ get_structure_level(sections_dict[ordered_keys[j]].structure_type)
                  \in 1..4

\* The rounds of the scan that appended key to ordered_keys.
Occurrences(key) == {j \in 1..Len(ordered_keys) : ordered_keys[j] = key}

\* The place in the document of the last tag that opened key.
LastOpened(key) ==
    opened_at[CHOOSE j \in Occurrences(key) :
                  \A n \in Occurrences(key) : n <= j]

\* The place of the first tag after pos that opened a record, and one past
\* the end of the document when there is none.
NextOpened(pos) ==
    LET later == {opened_at[j] : j \in 1..Len(opened_at)}
                     \cap (pos + 1 .. Len(content_tags))
    IN  IF later = {} THEN Len(content_tags) + 1
        ELSE CHOOSE q \in later : \A r \in later : q <= r

\* The markup of the tags from pos up to the next tag that opened a record.
Span(pos) ==
    [n \in 1..(NextOpened(pos) - pos) |->
        Markup(pos + n - 1, content_tags[pos + n - 1])]

\* C6: for a key that two tags of the document opened, the record the scan
\* leaves under it has the heading, the identifier and the accumulated
\* markup of the last tag that opened it; for a Section key the saved
\* output has that heading and identifier too, and its html ends with that
\* markup (as the table pass rewrites it).
C6_LaterOccurrenceWins ==
    stage # "scan" =>
        \A k \in {ordered_keys[j] : j \in 1..Len(ordered_keys)} :
            Cardinality(Occurrences(k)) > 1 =>
                LET later == content_tags[LastOpened(k)]
                IN  /\ Has(scanned, k)
                    /\ scanned[k].heading_text = later.heading_text
                    /\ scanned[k].full_id = later.identifier
                    /\ scanned[k].primary_id = Split(later.identifier)[1]
                    /\ scanned[k].html = Span(LastOpened(k))
                    /\ (stage = "done" /\ later.matched_level = "Section") =>
                           /\ Has(output, k)
                           /\ output[k].heading_text = later.heading_text
                           /\ output[k].full_id = later.identifier
                           /\ EndsWith(output[k].html,
                                       NormalizedHtml(Span(LastOpened(k))))

\* A saved output with a Section key that two tags with different headings
\* opened.
C6_Witness ==
    /\ stage = "done"
    /\ \E j1, j2 \in 1..Len(ordered_keys) :
           /\ j1 < j2
           /\ ordered_keys[j1] = ordered_keys[j2]
           /\ Has(output, ordered_keys[j1])
           /\ content_tags[opened_at[j1]].heading_text
                  # content_tags[opened_at[j2]].heading_text

\* A tag is being read; it is the last of content_tags'.
Reading == stage = "scan" /\ Len(content_tags') = Len(content_tags) + 1

\* The scanner is in table mode with a record open.
InTable ==
    in_table_of_sections /\ current_key # None /\ found_first_section

\* The step appends the tag it reads to the open record and opens nothing.
Appended ==
    /\ current_html_snippet_tags' =
           Append(current_html_snippet_tags,
                  Markup(Len(content_tags'), content_tags'[Len(content_tags')]))
    /\ current_key' = current_key
    /\ ordered_keys' = ordered_keys
    /\ sections_dict' = sections_dict

\* The step finalizes the open record and opens a record with the tag read.
Opened ==
    LET tag == content_tags'[Len(content_tags')]
        key == IF tag.matched_level = "Guide"
               THEN "Guide to " \o tag.guide_type \o "-" \o tag.identifier
               ELSE tag.matched_level \o "-" \o tag.identifier
    IN  /\ current_key' = key
        /\ ordered_keys' = Append(ordered_keys, key)
        /\ current_html_snippet_tags' = <<Markup(Len(content_tags'), tag)>>
        /\ found_first_section'
        /\ ~in_table_of_sections'
        /\ Has(sections_dict', key)
        /\ sections_dict'[key].heading_text = tag.heading_text
        /\ ~Has(sections_dict'[key], "html")
        /\ (current_key # None /\ current_key # key) =>
               sections_dict'[current_key].html = current_html_snippet_tags

\* C7: in table mode with a record open, a tag without an anchor whose text
\* matches no pattern other than Section's is appended to the open record,
\* opens no record, and leaves the scanner in table mode.
C7_TableLineIsAppended ==
    [][(/\ Reading
        /\ InTable
        /\ ~content_tags'[Len(content_tags')].anchor
        /\ content_tags'[Len(content_tags')].matched_level
               \in {None, "Section"})
       => (Appended /\ in_table_of_sections')]_vars

\* In table mode, the last tag appended matches the Section pattern and
\* follows the table header.
C7_Witness ==
    /\ stage = "scan"
    /\ InTable
    /\ Len(current_html_snippet_tags) >= 3
    /\ LET n == Len(current_html_snippet_tags)
       IN  /\ current_html_snippet_tags[n].tag.matched_level = "Section"
           /\ ~current_html_snippet_tags[n].tag.anchor
           /\ IsTableHeader(current_html_snippet_tags[n - 1])

\* The tag read has an anchor or matches a pattern other than Section's.
ReadsTableEnd ==
    /\ Reading
    /\ InTable
    /\ \/ content_tags'[Len(content_tags')].anchor
       \/ content_tags'[Len(content_tags')].matched_level
              \notin {None, "Section"}

\* C8 as claimed: in table mode with a record open, a tag with an anchor or
\* matching a non-Section pattern opens a new record if it matches a
\* pattern, and is otherwise appended, table mode being off afterwards.
C8_TableEndReevaluated ==
    [][ReadsTableEnd =>
           IF content_tags'[Len(content_tags')].matched_level # None
           THEN Opened
           ELSE Appended /\ ~in_table_of_sections']_vars

\* C8 as amended: as claimed, except that a tag appended this way which is
\* itself a "table of sections" paragraph puts the scanner back in table
\* mode.
C8_TableEndReevaluatedOrReentered ==
    [][ReadsTableEnd =>
           IF content_tags'[Len(content_tags')].matched_level # None
           THEN Opened
           ELSE /\ Appended
                /\ in_table_of_sections' =
                       (/\ content_tags'[Len(content_tags')].name = "p"
                        /\ IsTableOfSections(
                               get_text(content_tags'[Len(content_tags')])))]_vars

\* Table mode was left by a tag with an anchor that matches no pattern: it
\* was appended after the table header and table mode is off.
C8_Witness ==
    /\ stage = "scan"
    /\ ~in_table_of_sections
    /\ Len(current_html_snippet_tags) >= 3
    /\ LET n == Len(current_html_snippet_tags)
       IN  /\ current_html_snippet_tags[n].tag.anchor
           /\ current_html_snippet_tags[n].tag.matched_level = None
           /\ ~IsTableHeader(current_html_snippet_tags[n])
           /\ IsTableHeader(current_html_snippet_tags[n - 1])

\* C9 as claimed: in every state of the scan but table mode with a record
\* open, a tag whose text matches a pattern opens a record.
C9_MarkerOpensOutsideInTable ==
    [][(/\ Reading
        /\ ~InTable
        /\ content_tags'[Len(content_tags')].matched_level # None)
       => Opened]_vars

\* C9 as amended: while the table flag is not set, with or without a record
\* open, a tag whose text matches a pattern opens a record, anchor or not.
\* With the flag set and no record open, a tag that matches only the Section
\* pattern and has no anchor is skipped, and a tag that matches a pattern
\* and has an anchor or matches another pattern opens the first record.
C9_MarkerOpensOutsideTableMode ==
    [][(/\ Reading
        /\ ~InTable
        /\ content_tags'[Len(content_tags')].matched_level # None)
       => IF /\ in_table_of_sections
             /\ ~content_tags'[Len(content_tags')].anchor
             /\ content_tags'[Len(content_tags')].matched_level = "Section"
          THEN UNCHANGED scanVars
          ELSE Opened]_vars

\* The first record was opened by a tag without an anchor, after a tag that
\* opened nothing, and a second record by a tag without an anchor after it.
C9_Witness ==
    /\ stage = "scan"
    /\ Len(ordered_keys) = 2
    /\ opened_at = <<2, 3>>
    /\ ~content_tags[2].anchor
    /\ ~content_tags[3].anchor
    /\ content_tags[3].matched_level = "Section"

\* C10: once the guide pass has run, no key that starts with "Guide to " is
\* left in sections_dict.
C10_NoGuideKeyAfterGuidePass ==
    stage \in {"consolidate", "place", "save", "done"} =>
        \A k \in DOMAIN sections_dict : ~StartsWithGuideTo(k)


\* html with the page number that ends its last paragraph taken off.
WithoutTrailingPage(html) ==
    IF html # <<>> /\ html[Len(html)].kind = "tag"
    THEN SubSeq(html, 1, Len(html) - 1)
         \o <<Markup(html[Len(html)].pos,
                     [html[Len(html)].tag EXCEPT !.page = ""])>>
    ELSE html

\* record with its html, text_for_embedding and char_count left out.
OtherFields(record) ==
    [f \in DOMAIN record \ {"html", "text_for_embedding", "char_count"}
         |-> record[f]]

\* C11: a round of the guide pass at a Guide key gives the record under the
\* next key of ordered_keys the Guide's markup without its trailing page
\* number followed by the html that record had, with text_for_embedding and
\* char_count computed from the new html, and changes nothing else; a round
\* at another key changes nothing; the removal that ends the pass deletes
\* every Guide that had a following key, and changes no other record.
C11_GuideMergedIntoNext ==
    [][/\ stage = "guides" =>
              LET guide_key == ordered_keys[i + 1]
                  next_key == ordered_keys[i + 2]
                  html == WithoutTrailingPage(sections_dict[guide_key].html)
                              \o sections_dict[next_key].html
              IN  IF StartsWithGuideTo(guide_key)
                  THEN /\ DOMAIN sections_dict' = DOMAIN sections_dict
                       /\ sections_dict'[next_key].html = html
                       /\ sections_dict'[next_key].text_for_embedding =
                              clean_html_for_embedding(html)
                       /\ sections_dict'[next_key].char_count =
                              Len(clean_html_for_embedding(html))
                       /\ OtherFields(sections_dict'[next_key]) =
                              OtherFields(sections_dict[next_key])
                       /\ \A k \in DOMAIN sections_dict \ {next_key} :
                              sections_dict'[k] = sections_dict[k]
                  ELSE sections_dict' = sections_dict
       /\ stage = "remove" =>
              /\ \A k \in DOMAIN sections_dict :
                     IF \E j \in 1..Len(ordered_keys) - 1 :
                            ordered_keys[j] = k /\ StartsWithGuideTo(k)
                     THEN ~Has(sections_dict', k)
                     ELSE Has(sections_dict', k)
                          /\ sections_dict'[k] = sections_dict[k]
              /\ DOMAIN sections_dict' \subseteq DOMAIN sections_dict]_vars

\* The guide pass has merged a Guide whose heading ends with a page number
\* into the record after it: that record starts with the heading without
\* the number, and holds markup of its own after it.
C11_Witness ==
    /\ stage \in {"guides", "remove"}
    /\ \E j \in 1..Len(ordered_keys) - 1 :
           LET guide == sections_dict[ordered_keys[j]]
               target == sections_dict[ordered_keys[j + 1]]
           IN  /\ StartsWithGuideTo(ordered_keys[j])
               /\ ordered_keys[j + 1] # ordered_keys[j]
               /\ guide.html[Len(guide.html)].tag.page # ""
               /\ Len(target.html) > Len(guide.html)
               /\ SubSeq(target.html, 1, Len(guide.html))
                      = WithoutTrailingPage(guide.html)
               /\ target.text_for_embedding
                      = clean_html_for_embedding(target.html)


\* A paragraph whose text matches the reference grammar.
IsReferenceParagraph(m) ==
    m.kind = "tag" /\ m.tag.name = "p" /\ m.tag.ref # ""

\* The number of consecutive reference paragraphs right after place h.
RECURSIVE ReferencesAfter(_, _)
ReferencesAfter(html, h) ==
    IF h + 1 <= Len(html) /\ IsReferenceParagraph(html[h + 1])
    THEN 1 + ReferencesAfter(html, h + 1)
    ELSE 0

\* The places of the table headers of html.
HeaderPlaces(html) == {h \in 1..Len(html) : IsTableHeader(html[h])}

\* n is a place of new where the header at place h of html stands, directly
\* followed by one list of the k paragraphs after h in their order, directly
\* followed by what came after those paragraphs.
ListFollows(new, n, html, h, k) ==
    /\ n + 1 <= Len(new)
    /\ new[n] = html[h]
    /\ new[n + 1].kind = "ul"
    /\ Len(new[n + 1].items) = k
    /\ \A j \in 1..k :
           /\ new[n + 1].items[j].pos = html[h + j].pos
           /\ new[n + 1].items[j].section_num = html[h + j].tag.ref
    /\ SubSeq(new, n + 2, Len(new)) = SubSeq(html, h + k + 1, Len(html))

\* The round of the table pass for a key of sections_dict.
TableRound == stage = "table" /\ Has(sections_dict, ordered_keys[i + 1])

\* C12 as claimed: the round of the table pass for a record replaces the
\* k >= 1 consecutive reference paragraphs that follow a table header of
\* the record by one list of k items in their order, directly after that
\* header and directly before the siblings that followed them.
C12_TableBecomesList ==
    [][TableRound =>
           LET html == sections_dict[ordered_keys[i + 1]].html
               new == sections_dict'[ordered_keys[i + 1]].html
           IN  \A h \in HeaderPlaces(html) :
                   ReferencesAfter(html, h) >= 1 =>
                       \E n \in 1..Len(new) :
                           ListFollows(new, n, html, h,
                                       ReferencesAfter(html, h))]_vars

\* C12 as amended: the same for the first table header of the record only,
\* everything before that header and everything after the k paragraphs,
\* a later table header and its lines included, staying as it was.
C12_FirstTableBecomesList ==
    [][TableRound =>
           LET html == sections_dict[ordered_keys[i + 1]].html
               new == sections_dict'[ordered_keys[i + 1]].html
           IN  \A h \in HeaderPlaces(html) :
                   (/\ \A g \in HeaderPlaces(html) : h <= g
                    /\ ReferencesAfter(html, h) >= 1)
                   => /\ ListFollows(new, h, html, h,
                                     ReferencesAfter(html, h))
                      /\ SubSeq(new, 1, h) = SubSeq(html, 1, h)
                      /\ Len(new) = Len(html) - ReferencesAfter(html, h) + 1]_vars

\* The table pass has replaced two reference paragraphs by a list of two
\* items in their order; the paragraph that ended the run and a reference
\* paragraph after it follow the list.
C12_Witness ==
    /\ stage \in {"guides", "remove"}
    /\ \E k \in DOMAIN sections_dict :
           LET html == sections_dict[k].html
           IN  /\ Len(html) = 5
               /\ IsTableHeader(html[2])
               /\ html[3].kind = "ul"
               /\ Len(html[3].items) = 2
               /\ html[3].items[1].pos < html[3].items[2].pos
               /\ ~IsReferenceParagraph(html[4])
               /\ IsReferenceParagraph(html[5])


\* The list items of html.
ListItems(html) ==
    UNION { IF html[j].kind = "ul"
            THEN {html[j].items[n] : n \in 1..Len(html[j].items)}
            ELSE {}
            : j \in 1..Len(html) }

\* C13: the table pass makes no list item of a paragraph that is a
\* definitive heading (holds an <a id="_Toc..."> anchor): its scan of the
\* siblings after a table header stops there, also when the paragraph's text
\* matches the reference grammar.
C13_HeadingNeverListItem ==
    \A k \in DOMAIN sections_dict :
        \A li \in ListItems(Get(sections_dict[k], "html", <<>>)) :
            ~is_definitive_heading(content_tags[li.pos])


\* C14: the round of the table pass for a record that holds no table header,
\* or whose first table header is not directly followed by a reference
\* paragraph (so also when no sibling after it matches), leaves the record's
\* html, text_for_embedding and char_count, and all of sections_dict, as
\* they were.
C14_NoReferenceNoChange ==
    [][TableRound =>
           LET html == sections_dict[ordered_keys[i + 1]].html
           IN  (\/ HeaderPlaces(html) = {}
                \/ \E h \in HeaderPlaces(html) :
                       /\ \A g \in HeaderPlaces(html) : h <= g
                       /\ ReferencesAfter(html, h) = 0)
               => sections_dict' = sections_dict]_vars

\* The table pass is over, and a record holds a table header followed by a
\* paragraph that is no reference: it is as the scan left it.
C14_Witness ==
    /\ stage \in {"guides", "remove"}
    /\ \E k \in DOMAIN sections_dict :
           LET html == sections_dict[k].html
           IN  /\ \E h \in HeaderPlaces(html) :
                      /\ h < Len(html)
                      /\ ~IsReferenceParagraph(html[h + 1])
               /\ ListItems(html) = {}
               /\ sections_dict[k] = scanned[k]


\* The tags of the document that html is made from, in the order of html.
TagsOf(html) == [j \in 1..Len(html) |-> html[j].tag]

\* C15: for the document Intro, Part 1-1, Division 1, Section 40-25, body
\* text, Part 1-2, Section 40-50, more text, the saved output has the two
\* keys Section-40-25 and Section-40-50 and no other; the html of
\* Section-40-25 is the Part 1-1 heading, the Division 1 heading, the 40-25
\* heading and the body text, in that order; the html of Section-40-50 is
\* the Part 1-2 heading, its own heading and its text, and holds neither the
\* Part 1-1 nor the Division 1 heading.
C15_HierarchyFlattened ==
    (stage = "done" /\ content_tags = HierarchyDocument) =>
        /\ DOMAIN output = {"Section-40-25", "Section-40-50"}
        /\ TagsOf(output["Section-40-25"].html)
               = <<PartHeading, DivisionHeading, SectionHeading, BodyText>>
        /\ Positions(output["Section-40-25"].html) = 2..5
        /\ TagsOf(output["Section-40-50"].html)
               = <<OtherPartHeading, OtherSectionHeading, MoreText>>
        /\ Positions(output["Section-40-50"].html) = 6..8
        /\ \A j \in 1..Len(output["Section-40-50"].html) :
               output["Section-40-50"].html[j].tag
                   \notin {PartHeading, DivisionHeading}
        /\ \A k \in DOMAIN output :
               output[k].structure_type \notin {"Part", "Division"}

\* The output of that document has been saved, with two records.
C15_Witness ==
    /\ stage = "done"
    /\ content_tags = HierarchyDocument
    /\ Cardinality(DOMAIN output) = 2
    /\ Len(parent_html_stack) = 1


\* The document is a Guide's heading directly followed by a Section's.
GuideThenSection ==
    /\ Len(content_tags) = 2
    /\ matched_level(content_tags[1]) = "Guide"
    /\ matched_level(content_tags[2]) = "Section"

\* C16: for a document of a Guide marker directly followed by a Section
\* marker, the saved output holds no key that starts with "Guide to ", and
\* the Section's html is the Guide's markup without its trailing page
\* number followed by the Section's own markup.
C16_GuideFoldedIntoSection ==
    (stage = "done" /\ GuideThenSection) =>
        LET key == "Section-" \o content_tags[2].identifier
        IN  /\ \A k \in DOMAIN output : ~StartsWithGuideTo(k)
            /\ DOMAIN output = {key}
            /\ output[key].html =
                   <<Markup(1, [content_tags[1] EXCEPT !.page = ""]),
                     Markup(2, content_tags[2])>>

\* The output of such a document has been saved; the Guide's heading ends
\* with a page number, and the Guide was in sections_dict after the scan.
C16_Witness ==
    /\ stage = "done"
    /\ GuideThenSection
    /\ content_tags[1].page # ""
    /\ \E k \in DOMAIN scanned : StartsWithGuideTo(k)
    /\ DOMAIN output # {}


\* The lists of html.
Lists(html) == {j \in 1..Len(html) : html[j].kind = "ul"}

\* C17: for the document Division 1 heading, "Table of sections", three
\* reference lines that match the Section pattern and have no anchor, and a
\* Section heading with an anchor: after the scan the three lines are in the
\* Division's record and in no other; after the table pass the Division's
\* html is its heading, the table header and one list of three items, made
\* of the three lines in their order; the Section heading is the markup of
\* a record of its own and is not in the Division's.
C17_TableStaysInOwner ==
    (content_tags = TableDocument /\ stage \notin {"scan", "table"}) =>
        /\ DOMAIN scanned = {"Division-1", "Section-40-25"}
        /\ TagsOf(scanned["Division-1"].html)
               = SubSeq(TableDocument, 1, 5)
        /\ LET html == normalized["Division-1"].html
           IN  /\ Len(html) = 3
               /\ TagsOf(SubSeq(html, 1, 2)) = <<DivisionHeading, TableHeader>>
               /\ Lists(html) = {3}
               /\ Len(html[3].items) = 3
               /\ \A j \in 1..3 : html[3].items[j].pos = j + 2
               /\ 6 \notin Positions(html)
        /\ normalized["Section-40-25"].html = <<Markup(6, SectionHeading)>>
        /\ normalized["Section-40-25"].heading_text
               = SectionHeading.heading_text

\* The table pass has run on that document: the Division's record was
\* rewritten, and the Section's record holds its heading.
C17_Witness ==
    /\ content_tags = TableDocument
    /\ stage = "guides"
    /\ normalized["Division-1"] # scanned["Division-1"]
    /\ ListItems(sections_dict["Division-1"].html) # {}
    /\ Has(sections_dict, "Section-40-25")


\* The place of the first "-" of s from place j on, 0 when there is none.
RECURSIVE FirstHyphenFrom(_, _)
FirstHyphenFrom(s, j) ==
    IF j > Len(s) THEN 0
    ELSE IF SubSeq(s, j, j) = "-" THEN j
    ELSE FirstHyphenFrom(s, j + 1)

\* The characters of s.
Characters(s) == {SubSeq(s, j, j) : j \in 1..Len(s)}

\* key and record agree: the ids are the parts of full_id around its first
\* "-", the key is made of the type and full_id, and full_id holds no
\* hyphen or dash other than "-".  absent is what stands for a
\* secondary_id that is not there.
WellIdentified(key, record, absent) ==
    LET full_id == record.full_id
        h == FirstHyphenFrom(full_id, 1)
    IN  /\ Has(record, "full_id")
        /\ Has(record, "primary_id")
        /\ IF h = 0
           THEN /\ record.primary_id = full_id
                /\ Get(record, "secondary_id", None) = absent
           ELSE /\ record.primary_id = SubSeq(full_id, 1, h - 1)
                /\ Has(record, "secondary_id")
                /\ record.secondary_id = SubSeq(full_id, h + 1, Len(full_id))
        /\ key = IF record.structure_type = "Guide"
                 THEN "Guide to " \o record.guide_target_type
                          \o "-" \o full_id
                 ELSE record.structure_type \o "-" \o full_id
        /\ Characters(full_id)
               \cap {Hyphen, NonBreakingHyphen, FigureDash, EnDash, EmDash}
               = {}

\* C18: in every record the scan makes, and in every record of the
\* consolidated and saved output, primary_id is the part of full_id before
\* its first "-" and secondary_id the part after it (no secondary_id in a
\* record of the scan whose full_id has no "-"); the key is the structure
\* type, "-" and full_id, and "Guide to ", the target type, "-" and full_id
\* for a Guide; full_id holds no hyphen or dash other than the ASCII "-".
C18_IdentifiersWellFormed ==
    /\ \A k \in DOMAIN sections_dict :
           /\ WellIdentified(k, sections_dict[k], None)
           /\ FirstHyphenFrom(sections_dict[k].full_id, 1) = 0
                  => ~Has(sections_dict[k], "secondary_id")
    /\ \A k \in DOMAIN final_sections :
           WellIdentified(k, final_sections[k], None)
    /\ stage = "done" =>
           \A k \in DOMAIN output : WellIdentified(k, output[k], None)

\* The output is saved; the scan made a record without a secondary_id and
\* a record with one from a heading whose identifier is written with a
\* non-breaking hyphen.
C18_Witness ==
    /\ stage = "done"
    /\ DOMAIN output # {}
    /\ \E k \in DOMAIN scanned : ~Has(scanned[k], "secondary_id")
    /\ \E j \in 1..Len(ordered_keys) :
           /\ NonBreakingHyphen
                  \in Characters(get_text(content_tags[opened_at[j]]))
           /\ Has(scanned, ordered_keys[j])
           /\ scanned[ordered_keys[j]].primary_id = "40"
           /\ scanned[ordered_keys[j]].secondary_id = "B"


\* The record has its html, text_for_embedding and char_count together, the
\* text being the cleaned html and the count its length.
TextFollowsHtml(record) ==
    IF Has(record, "html")
    THEN /\ Has(record, "text_for_embedding")
         /\ Has(record, "char_count")
         /\ record.text_for_embedding = clean_html_for_embedding(record.html)
         /\ record.char_count = Len(record.text_for_embedding)
    ELSE ~Has(record, "text_for_embedding") /\ ~Has(record, "char_count")

C20_RunNeverRaises == stage # "raised"


\* C21: when the input file is missing, is not JSON or has no "html_content"
\* key, the run ends with exit status 1 straight from loading: no tag is
\* ever scanned, no record made and no output saved.
C21_FatalInputExits ==
    input \in {"file not found", "not JSON", "no html_content"} =>
        /\ stage \in {"load", "exit"}
        /\ stage = "exit" => exit_status = 1
        /\ content_tags = <<>>
        /\ sections_dict = EmptyDict
        /\ output = None

\* The run has ended on an input without the "html_content" key.
C21_Witness ==
    /\ stage = "exit"
    /\ input = "no html_content"
    /\ exit_status = 1


\* C22: normalize_hyphens applied to a text it has normalized gives that
\* text again.
C22_NormalizeIdempotent ==
    [][stage = "normalized" => text' = text]_vars

\* A text with two runs of hyphens and dashes, one of them mixed, has been
\* normalized twice; the first time changed it.
C22_Witness ==
    /\ stage = "normalized again"
    /\ raw_text = Hyphen \o standard_hyphen \o "a" \o EnDash
    /\ text = "-a-"


\* The Unicode hyphens and dashes U+2010 to U+2015.
UnicodeDashes ==
    {Hyphen, NonBreakingHyphen, FigureDash, EnDash, EmDash, HorizontalBar}

\* s from place j on without its characters of the class of normalize_hyphens.
RECURSIVE WithoutHyphensFrom(_, _)
WithoutHyphensFrom(s, j) ==
    IF j > Len(s) THEN ""
    ELSE IF SubSeq(s, j, j) \in HyphenClass THEN WithoutHyphensFrom(s, j + 1)
    ELSE SubSeq(s, j, j) \o WithoutHyphensFrom(s, j + 1)

\* s holds two "-" next to each other.
DoubleHyphen(s) ==
    \E j \in 1..(Len(s) - 1) : SubSeq(s, j, j + 1) = "--"

\* C23 as stated: the normalized text holds no character of U+2010 to
\* U+2015.
C23_NoUnicodeDash ==
    stage # "read" => Characters(text) \cap UnicodeDashes = {}

\* C23: the normalized text holds no hyphen of U+2010 to U+2013 and no two
\* "-" in a row, and is the raw text in everything else: the em dash U+2014
\* and the horizontal bar U+2015 stay as they are.
C23_HyphensCollapsed ==
    stage = "normalized" =>
        /\ Characters(text) \cap (HyphenClass \ {standard_hyphen}) = {}
        /\ ~DoubleHyphen(text)
        /\ WithoutHyphensFrom(text, 1) = WithoutHyphensFrom(raw_text, 1)
        /\ (Characters(raw_text) \cap HyphenClass # {}) =
               (standard_hyphen \in Characters(text))

\* A text with an en dash, a figure dash and an em dash has been normalized:
\* the first two are one "-" and the em dash is still there.
C23_Witness ==
    /\ stage = "normalized"
    /\ raw_text = EnDash \o FigureDash \o EmDash \o "a"
    /\ text = standard_hyphen \o EmDash \o "a"


\* sections_dict as scanned after the first n rounds of the table pass.
RECURSIVE TablePassTo(_)
TablePassTo(n) ==
    IF n = 0 THEN scanned
    ELSE NormalizeSection(TablePassTo(n - 1), ordered_keys[n])

\* The Guide keys that the guide pass looks at: all but the last key.
GuideKeys ==
    {ordered_keys[j] : j \in {k \in 1..(Len(ordered_keys) - 1) :
                                 StartsWithGuideTo(ordered_keys[k])}}

\* C24: the passes run one after the other, each over all the records: the
\* table pass is at its i-th key with nothing merged, marked or consolidated;
\* the guide pass and all that follows work on the records after the whole
\* table pass; nothing is consolidated before the guide pass has ended and
\* every Guide it merged is removed; the consolidation changes no record.
C24_StagesInOrder ==
    /\ stage \in {"load", "exit", "raised", "scan"} =>
           scanned = EmptyDict /\ normalized = EmptyDict
    /\ stage = "table" =>
           sections_dict = TablePassTo(i) /\ keys_to_remove = <<>>
    /\ stage \in {"guides", "remove", "consolidate", "place"} =>
           normalized = TablePassTo(Len(ordered_keys))
    /\ stage \in {"load", "exit", "raised", "scan", "table", "guides",
                  "remove"} =>
           /\ final_sections = EmptyDict
           /\ parent_html_stack = <<>>
           /\ output = None
    /\ stage \in {"consolidate", "place"} =>
           /\ \A key \in GuideKeys : ~Has(sections_dict, key)
           /\ sections_dict = RemoveKeys(sections_dict, keys_to_remove)
           /\ output = None

\* The consolidation starts on records of which one had its table made a
\* list by the table pass, with nothing consolidated yet.
C24_Witness ==
    /\ stage = "consolidate"
    /\ i = 0
    /\ normalized # scanned
    /\ final_sections = EmptyDict


\* The parses of the state: the one that runs and the one set aside.
Parses == {Frame} \cup {suspended[j] : j \in 1..Len(suspended)}

\* C25: a parse that has ended on the document of the first parse of the
\* run, which ran alone, has the output of that first parse, whatever was
\* parsed before it and whatever parse it took turns with.
C25_NoSharedState ==
    \A parse \in Parses :
        (/\ first_parse # <<>>
         /\ parse.stage = "done"
         /\ parse.content_tags = first_parse[1].content_tags)
        => parse.output = first_parse[1].output

\* A parse of the first document has ended with the first output, with
\* sections in it, while a parse of another document is set aside in the
\* middle of its consolidation with a header on its stack.
C25_Witness ==
    /\ first_parse # <<>>
    /\ suspended # <<>>
    /\ suspended[1].stage = "place"
    /\ suspended[1].parent_html_stack # <<>>
    /\ suspended[1].content_tags # content_tags
    /\ stage = "done"
    /\ content_tags = first_parse[1].content_tags
    /\ output = first_parse[1].output
    /\ DOMAIN output # {}


\* The level of the tag that opened the j-th key of ordered_keys.
OpenedLevel(j) ==
    get_structure_level(matched_level(content_tags[opened_at[j]]))

\* The places of the tags accumulated for the j-th key of ordered_keys.
OwnPositions(j) == opened_at[j] .. (NextOpened(opened_at[j]) - 1)

\* The Chapter, Part, Division and Subdivision markers open at the j-th key:
\* those before it that no later marker of their level or above closed.
OpenAncestors(j) ==
    {a \in 1..(j - 1) :
        /\ OpenedLevel(a) \in 1..4
        /\ \A b \in (a + 1)..(j - 1) :
               OpenedLevel(b) \in 1..4 => OpenedLevel(b) > OpenedLevel(a)}

\* The last round of the scan that opened key.
LastOccurrence(key) ==
    CHOOSE j \in Occurrences(key) : \A n \in Occurrences(key) : n <= j

\* No Guide marker opened a record.
NoGuide == \A j \in 1..Len(ordered_keys) : OpenedLevel(j) # 0

\* C26: in a document without Guides, the html of every Section of the
\* output is made of the tags accumulated for the markers open where the
\* Section was opened and of the tags accumulated for the Section, each
\* marker giving the tags accumulated after its own occurrence.
C26_PrefixIsOpenAncestors ==
    (stage = "done" /\ NoGuide) =>
        \A k \in DOMAIN output :
            Positions(output[k].html) =
                UNION {OwnPositions(a) :
                         a \in OpenAncestors(LastOccurrence(k))
                               \cup {LastOccurrence(k)}}


\* No two rounds of the scan opened the same key.
DistinctKeys ==
    \A j1, j2 \in 1..Len(ordered_keys) :
        ordered_keys[j1] = ordered_keys[j2] => j1 = j2

\* The markup accumulated for the j-th key of ordered_keys: the snippet for
\* the record that is open, the record's html for one that was finalized.
Accumulated(j) ==
    IF stage = "scan"
    THEN IF j = Len(ordered_keys) THEN current_html_snippet_tags
         ELSE Get(sections_dict[ordered_keys[j]], "html", <<>>)
    ELSE Get(scanned[ordered_keys[j]], "html", <<>>)

\* The markup accumulated for the first n keys, in the order they were opened.
RECURSIVE Concatenated(_)
Concatenated(n) ==
    IF n = 0 THEN <<>> ELSE Concatenated(n - 1) \o Accumulated(n)

\* The markup of the tags of the document from place pos on.
NodesFrom(pos) ==
    [n \in 1..(Len(content_tags) - pos + 1) |->
        Markup(pos + n - 1, content_tags[pos + n - 1])]

\* C27: while all keys are distinct, during the scan and after it, the
\* markup accumulated for each key is the tag that opened it and the tags
\* after it up to the next tag that opened a record, and the markup of all
\* keys in the order they were opened is the document from the first tag
\* that opened a record on: each of these tags once, in document order.
C27_RecordsPartitionDocument ==
    (DistinctKeys /\ ordered_keys # <<>>) =>
        /\ \A j \in 1..Len(ordered_keys) :
               Accumulated(j) = Span(opened_at[j])
        /\ Concatenated(Len(ordered_keys)) = NodesFrom(opened_at[1])

\* The scan has ended on a document of a tag that opened a record, a tag
\* appended to it and a tag that opened another record.
C27_Witness ==
    /\ stage = "table"
    /\ DistinctKeys
    /\ Len(content_tags) = 3
    /\ opened_at = <<1, 3>>
    /\ Len(scanned[ordered_keys[1]].html) = 2
    /\ Len(scanned[ordered_keys[2]].html) = 1


\* A record is open and the scanner is not in table mode.
OpenSection ==
    current_key # None /\ found_first_section /\ ~in_table_of_sections

\* The tag read has the text of a table header.
ReadsTableOfSections ==
    /\ Reading
    /\ OpenSection
    /\ IsTableOfSections(text')

\* C28 as claimed: with a record open and table mode off, a tag of any name
\* whose normalized text is "table of sections" is appended to the open
\* record and puts the scanner in table mode.
C28_AnyTagStartsTable ==
    [][ReadsTableOfSections => (Appended /\ in_table_of_sections')]_vars

\* C28: with a record open and table mode off, a tag whose normalized text
\* is "table of sections" is appended to the open record; it puts the
\* scanner in table mode when it is a p, and leaves table mode off when it
\* is of another name.
C28_ParagraphStartsTable ==
    [][ReadsTableOfSections =>
           /\ Appended
           /\ in_table_of_sections' =
                  (content_tags'[Len(content_tags')].name = "p")]_vars

\* A record holds the tag that opened it, then an h4 and a p with the text
\* of a table header: the scanner went on out of table mode after the h4
\* and is in table mode after the p.
C28_Witness ==
    /\ stage = "scan"
    /\ in_table_of_sections
    /\ Len(current_html_snippet_tags) = 3
    /\ current_html_snippet_tags[2].tag.name = "h4"
    /\ IsTableOfSections(get_text(current_html_snippet_tags[2].tag))
    /\ IsTableHeader(current_html_snippet_tags[3])
    /\ content_tags[3] = current_html_snippet_tags[3].tag


\* The scan has ended and its result has gone to the main block.
ScanEnded ==
    stage \in {"table", "guides", "remove", "consolidate", "place", "save",
               "done"}

\* C29: after the scan, whether it ended in table mode or not, every record
\* has html, text_for_embedding and char_count; its html is the tag that
\* last opened its key, a marker of that key, followed by the tags up to
\* the next tag that opened a record, in document order; the record opened
\* last ends with the last tag of the document.
C29_OpenRecordFlushed ==
    ScanEnded =>
        /\ DOMAIN scanned = {ordered_keys[j] : j \in 1..Len(ordered_keys)}
        /\ \A k \in DOMAIN scanned :
               /\ {"html", "text_for_embedding", "char_count"}
                      \subseteq DOMAIN scanned[k]
               /\ scanned[k].html = Span(LastOpened(k))
               /\ scanned[k].html[1].pos = LastOpened(k)
               /\ new_key(scanned[k].html[1].tag) = k
               /\ scanned[k].text_for_embedding =
                      clean_html_for_embedding(scanned[k].html)
               /\ scanned[k].char_count = Len(scanned[k].text_for_embedding)
        /\ ordered_keys # <<>> =>
               LET html == scanned[ordered_keys[Len(ordered_keys)]].html
               IN  /\ html[1].pos = opened_at[Len(opened_at)]
                   /\ html[Len(html)].pos = Len(content_tags)

\* The scan has ended in table mode: the only record holds the tag that
\* opened it, a table header and a line of the table.
C29_Witness ==
    /\ stage = "table"
    /\ in_table_of_sections
    /\ i = 0
    /\ Len(ordered_keys) = 1
    /\ Len(content_tags) = 3
    /\ Len(scanned[ordered_keys[1]].html) = 3
    /\ IsTableHeader(scanned[ordered_keys[1]].html[2])


\* The keys that a tag matching the Section pattern opened in the scan.
OpenedSectionKeys ==
    {ordered_keys[j] : j \in {n \in 1..Len(ordered_keys) :
                                 OpenedLevel(n) = 5}}

\* C30: the keys of the saved output are the keys that Section markers
\* opened in the scan, each once: the passes after the scan drop none of
\* them and add no key.
C30_OutputKeysAreSectionKeys ==
    stage = "done" => DOMAIN output = OpenedSectionKeys

\* The saved output has the keys of two Sections of a document in which a
\* Guide opened a third key.
C30_Witness ==
    /\ stage = "done"
    /\ Len(ordered_keys) = 3
    /\ Cardinality(DOMAIN output) = 2
    /\ \E j \in 1..3 : StartsWithGuideTo(ordered_keys[j])


\* The j-th key of ordered_keys is a Guide's.
IsGuideAt(j) == StartsWithGuideTo(ordered_keys[j])

\* The places j of ordered_keys where two Guides follow each other, the
\* first after no Guide, and the key after them is not a Guide's.
TwoGuidesAt ==
    {j \in 1..(Len(ordered_keys) - 2) :
        /\ IsGuideAt(j)
        /\ IsGuideAt(j + 1)
        /\ ~IsGuideAt(j + 2)
        /\ j > 1 => ~IsGuideAt(j - 1)}

MatchingPatterns ==
    {n \in 1..Len(patterns) : pattern_match(patterns[n], text)}

\* C32: the text is classified, hyphens normalized, by the first pattern
\* that matches it in the order Chapter, Part, Division, Subdivision, Guide,
\* Section; it is a Section only when none of the five patterns before
\* Section's matches it; an empty text and a text that no pattern matches
\* have no level, and the run goes on.
C32_FirstMatchDecides ==
    stage = "classified" =>
        /\ patterns = <<"Chapter", "Part", "Division", "Subdivision", "Guide",
                        "Section">>
        /\ text = normalize_hyphens(raw_text)
        /\ IF text = "" \/ MatchingPatterns = {}
           THEN classified = None
           ELSE \E n \in MatchingPatterns :
                    /\ classified = patterns[n]
                    /\ \A m \in MatchingPatterns : n <= m
        /\ classified = "Section" => MatchingPatterns = {6}
        /\ exit_status = 0

\* A Part's heading with an en dash in its identifier and a page number at
\* its end has been classified as a Part.
C32_Witness ==
    /\ stage = "classified"
    /\ raw_text = "Part 1" \o EnDash \o "1 General 7"
    /\ text = "Part 1-1 General 7"
    /\ classified = "Part"


\* The records after the first n rounds of a second table pass, run over
\* the records that the table pass has left.
RECURSIVE SecondTablePassTo(_)
SecondTablePassTo(n) ==
    IF n = 0 THEN normalized
    ELSE NormalizeSection(SecondTablePassTo(n - 1), ordered_keys[n])

\* C34: the table pass is idempotent: a second run over the records it has
\* left changes no record at any of its rounds, and within one run a round
\* at a key that an earlier round has visited (a key that is twice in
\* ordered_keys) leaves every record as it is.
C34_TableNormalizerIdempotent ==
    /\ stage \in {"guides", "remove", "consolidate", "place", "save",
                  "done"} =>
           \A n \in 0..Len(ordered_keys) : SecondTablePassTo(n) = normalized
    /\ stage = "table" =>
           /\ sections_dict = TablePassTo(i)
           /\ \A j \in 1..i :
                  NormalizeSection(sections_dict, ordered_keys[j])
                      = sections_dict

\* The table pass has ended for a key that is twice in ordered_keys: its
\* record was rewritten, with a list after the first table header, and it
\* still has a later table header with a reference paragraph after it.
C34_Witness ==
    /\ stage = "guides"
    /\ Len(ordered_keys) = 2
    /\ ordered_keys[1] = ordered_keys[2]
    /\ LET html == normalized[ordered_keys[1]].html
       IN  /\ html # scanned[ordered_keys[1]].html
           /\ \E j \in 1..Len(html) :
                  /\ html[j].kind = "ul"
                  /\ \E k \in (j + 1)..(Len(html) - 1) :
                         IsTableHeader(html[k]) /\ IsSectionRef(html[k + 1])


\* The steps that were started for the k-th file of the configuration.
StepsOf(k) == SelectSeq(steps_run, LAMBDA r : r.file = k)

\* A batch of the k-th file was not inserted: its upsert raised.
BatchFailed(k) == \E b \in failed_batches : b[1] = k

\* C35: a file of which a batch could not be inserted is reported as
\* failed: the upload script ends with a status other than 0 and
\* process_single_file returns False for the file.
C35_FailedBatchFailsFile ==
    \A k \in 1..Len(reported) : BatchFailed(k) => reported[k] = "failed"

\* C36: the steps of a file are started in the order of Scripts, each one
\* only after all the steps before it have succeeded; a file with a step
\* that failed is reported as failed with no step after that one, and a row
\* of a file is stored only when its five steps before the upload succeeded
\* and the upload script was run.
C36_StepsInOrder ==
    \A k \in 1..Len(config_data) :
        LET run == StepsOf(k)
        IN  /\ Len(run) <= Len(Scripts)
            /\ \A n \in 1..Len(run) : run[n].script = Scripts[n]
            /\ \A n \in 1..(Len(run) - 1) : run[n].outcome = "ok"
            /\ (\E n \in 1..Len(run) : run[n].outcome # "ok") =>
                   /\ k <= Len(reported)
                   /\ reported[k] = "failed"
                   /\ \A r \in store : r.file # k
            /\ (\E r \in store : r.file = k) =>
                   /\ Len(run) = Len(Scripts)
                   /\ \A n \in 1..Len(run) : run[n].outcome = "ok"

\* The run has ended; the image conversion of the first file failed, after
\* two steps that succeeded, and nothing of the file is stored; the second
\* file went through its six steps and has a row in the table.
C36_Witness ==
    /\ stage = "done"
    /\ reported = <<"failed", "success">>
    /\ Len(StepsOf(1)) = 3
    /\ StepsOf(1)[3] = [file |-> 1, script |-> "convert_emf_images.py",
                        outcome |-> "CalledProcessError"]
    /\ Len(StepsOf(2)) = 6
    /\ \E r \in store : r.file = 2
    /\ \A r \in store : r.file # 1

\* The acts of the configuration.
ConfiguredActs == {config_data[j].act_name : j \in 1..Len(config_data)}

\* C37: while the rows are deleted, and after a deletion that failed, no
\* file has been processed and no row has been stored; the files are
\* processed only after the deletion has succeeded for every act, and then
\* no row of a former run is left for an act of the configuration; a
\* deletion that failed ends the run with status 1; a run that gets to the
\* files reports every file of the configuration, and has started the
\* first step of each file that is there, whatever happened to the others.
C37_DeleteBeforeFiles ==
    /\ stage \in {"config", "connect", "delete", "exit"} =>
           /\ steps_run = <<>>
           /\ reported = <<>>
           /\ file_index = 0
           /\ step = 0
           /\ \A r \in store : r.file = 0
    /\ stage = "exit" => exit_status = 1
    /\ stage # "exit" => exit_status = 0
    /\ ~all_success => stage \in {"delete", "exit"}
    /\ stage \in {"files", "upload"} \/ (stage = "done" /\ config_data # <<>>)
           =>
           /\ act_index = Len(unique_act_names)
           /\ \A r \in store : r.file = 0 => r.act_name \notin ConfiguredActs
    /\ stage = "done" /\ config_data # <<>> =>
           /\ Len(reported) = Len(config_data)
           /\ successful_files + failed_files = Len(config_data)
           /\ \A k \in 1..Len(config_data) :
                  config_data[k].exists => StepsOf(k) # <<>>

\* The run has ended for two files of two acts: the first file failed at
\* its first step and the second one is stored; a row of an act that is not
\* configured is still in the table.
C37_Witness ==
    /\ stage = "done"
    /\ config_data = <<FileA, FileB>>
    /\ reported = <<"failed", "success">>
    /\ Len(StepsOf(1)) = 1
    /\ \E r \in store : r.file = 2 /\ r.act_name = "Act B"
    /\ \E r \in store : r.file = 0 /\ r.act_name = OtherAct


\* The attempts that have made the data URI.
Converted == {n \in 1..Len(attempts) : attempts[n].outcome = "converted"}

\* What holds of the attempts whatever becomes of the temporary files: at
\* most MAX_RETRIES + 1 = 3 of them, none after one that made the data
\* URI, none without image data; the data URI is there exactly when an
\* attempt made it, and None is returned only after three attempts.
AttemptsBounded ==
    /\ MAX_RETRIES + 1 = 3
    /\ Len(attempts) <= MAX_RETRIES + 1
    /\ Converted \subseteq {Len(attempts)}
    /\ emf_base64_data # "emf" => attempts = <<>>
    /\ base64_data_uri \in {None, DataUri}
    /\ base64_data_uri = DataUri <=> Converted # {}
    /\ stage = "returned" /\ emf_base64_data = "emf" /\ Converted = {} =>
           Len(attempts) = MAX_RETRIES + 1

\* The call returns.
Returns == <>(stage = "returned")

\* C38, as stated: at most three attempts, the call returns, no attempt
\* after the first one that succeeds, no temporary file and no temporary
\* directory is there after an attempt, and the data URI is returned exactly
\* when an attempt succeeded.
C38_TemporariesAlwaysRemoved ==
    /\ [](AttemptsBounded /\ temp_emf_paths = {} /\ temp_out_dirs = {})
    /\ Returns

\* C38, amended: as stated, but a temporary file or directory is left
\* behind exactly by an attempt that made it and whose removal raised.
C38_TemporariesRemovedUnlessRaised ==
    /\ [](/\ AttemptsBounded
          /\ temp_emf_paths =
                 {n \in 1..Len(attempts) : attempts[n].remove_raised}
          /\ temp_out_dirs =
                 {n \in 1..Len(attempts) : attempts[n].rmtree_raised}
          /\ \A n \in 1..Len(attempts) :
                 /\ attempts[n].remove_raised =>
                        MadeFile(attempts[n].outcome)
                 /\ attempts[n].rmtree_raised =>
                        MadeDir(attempts[n].outcome))
    /\ Returns

\* The call has returned the data URI of the third attempt; the first one
\* ran out of time and its temporary file could not be removed, the second
\* one left no PNG and was cleaned up.
C38_Witness ==
    /\ stage = "returned"
    /\ base64_data_uri = DataUri
    /\ Len(attempts) = 3
    /\ attempts[1] = [outcome |-> "timeout", remove_raised |-> TRUE,
                      rmtree_raised |-> FALSE]
    /\ attempts[2] = [outcome |-> "no output", remove_raised |-> FALSE,
                      rmtree_raised |-> FALSE]
    /\ temp_emf_paths = {1}
    /\ temp_out_dirs = {}

=============================================================================
